---- MODULE Spec2Model ----
(***************************************************************************)
(* A model of NetworkConfigParser (network_device_config_parse/scripts/    *)
(* parser.py): one parse session with its raw text, metadata, device_info, *)
(* interface list and active rule set, plus the rule documents on disk.    *)
(*                                                                         *)
(* Representation.  A Python str is a sequence of one-character strings.   *)
(* A configuration text is a sequence of lines; a line is                  *)
(* [indent, toks]: whether it starts with one space, and its               *)
(* whitespace-free tokens, separated by single spaces.  Every line ends    *)
(* with "\n"; a blank line has no tokens and no indent.  The regular       *)
(* expressions of the source are evaluated on that structure: \s+ is the   *)
(* gap between two consecutive tokens (within or across lines), \S+ a      *)
(* whole token, ^ (MULTILINE) the first token of an unindented line, and   *)
(* literals are compared character by character inside the tokens.         *)
(***************************************************************************)
EXTENDS Integers, Sequences, FiniteSets, TLC

(***************************************************************************)
(* The string literals of the source, spelled as character sequences.      *)
(***************************************************************************)
Lit ==
  [ empty |-> <<>>,
    hostname |-> <<"h","o","s","t","n","a","m","e">>,
    sysname |-> <<"s","y","s","n","a","m","e">>,
    interface |-> <<"i","n","t","e","r","f","a","c","e">>,
    interfaces |-> <<"i","n","t","e","r","f","a","c","e","s">>,
    vlan |-> <<"v","l","a","n">>,
    version |-> <<"v","e","r","s","i","o","n">>,
    n15 |-> <<"1","5">>,
    n12 |-> <<"1","2">>,
    hash |-> <<"#">>,
    set |-> <<"s","e","t">>,
    ystem |-> <<"y","s","t","e","m">>,
    JunosColon |-> <<"J","u","n","o","s",":">>,
    router |-> <<"r","o","u","t","e","r">>,
    serial |-> <<"s","e","r","i","a","l">>,
    WAN |-> <<"W","A","N">>,
    switch |-> <<"s","w","i","t","c","h">>,
    trunk |-> <<"t","r","u","n","k">>,
    GigabitEthernet |-> <<"G","i","g","a","b","i","t","E","t","h","e","r","n","e","t">>,
    firewall |-> <<"f","i","r","e","w","a","l","l">>,
    security_zone |-> <<"s","e","c","u","r","i","t","y","-","z","o","n","e">>,
    policy |-> <<"p","o","l","i","c","y">>,
    load_balance |-> <<"l","o","a","d","-","b","a","l","a","n","c","e">>,
    slb |-> <<"s","l","b">>,
    serverfarm |-> <<"s","e","r","v","e","r","f","a","r","m">>,
    Cisco |-> <<"C","i","s","c","o">>,
    Huawei |-> <<"H","u","a","w","e","i">>,
    H3C |-> <<"H","3","C">>,
    Juniper |-> <<"J","u","n","i","p","e","r">>,
    Ruijie |-> <<"R","u","i","j","i","e">>,
    Cisco_IOS |-> <<"C","i","s","c","o"," ","I","O","S">>,
    Huawei_VRP |-> <<"H","u","a","w","e","i"," ","V","R","P">>,
    H3C_Comware |-> <<"H","3","C"," ","C","o","m","w","a","r","e">>,
    Juniper_JunOS |-> <<"J","u","n","i","p","e","r"," ","J","u","n","O","S">>,
    Ruijie_OS |-> <<"R","u","i","j","i","e"," ","O","S">>,
    Router |-> <<"R","o","u","t","e","r">>,
    Switch |-> <<"S","w","i","t","c","h">>,
    Firewall |-> <<"F","i","r","e","w","a","l","l">>,
    Load_Balancer |-> <<"L","o","a","d"," ","B","a","l","a","n","c","e","r">>,
    catalyst |-> <<"c","a","t","a","l","y","s","t">>,
    ne |-> <<"n","e">>,
    s |-> <<"s">>,
    mx |-> <<"m","x">>,
    srg |-> <<"s","r","g">>,
    system |-> <<"s","y","s","t","e","m">>,
    number |-> <<"n","u","m","b","e","r">>,
    processor |-> <<"p","r","o","c","e","s","s","o","r">>,
    board |-> <<"b","o","a","r","d">>,
    id |-> <<"i","d">>,
    ip |-> <<"i","p">>,
    address |-> <<"a","d","d","r","e","s","s">>,
    description |-> <<"d","e","s","c","r","i","p","t","i","o","n">>,
    no |-> <<"n","o">>,
    shutdown |-> <<"s","h","u","t","d","o","w","n">>,
    enable |-> <<"e","n","a","b","l","e">>,
    up |-> <<"u","p">>,
    down |-> <<"d","o","w","n">>,
    set_system_hostname |-> <<"s","e","t","-","s","y","s","t","e","m","-","h","o","s","t","n","a","m","e">>,
    host_name |-> <<"h","o","s","t","-","n","a","m","e">>,
    yaml |-> <<".","y","a","m","l">> ]

(***************************************************************************)
(* Character classes and str helpers.                                      *)
(***************************************************************************)
Digits == {"0","1","2","3","4","5","6","7","8","9"}

UpperCase == <<"A","B","C","D","E","F","G","H","I","J","K","L","M",
               "N","O","P","Q","R","S","T","U","V","W","X","Y","Z">>

LowerCase == <<"a","b","c","d","e","f","g","h","i","j","k","l","m",
               "n","o","p","q","r","s","t","u","v","w","x","y","z">>

Letters == {UpperCase[k] : k \in 1..26} \cup {LowerCase[k] : k \in 1..26}

HexDigits == Digits \cup {"a","b","c","d","e","f","A","B","C","D","E","F"}

\* The value of a decimal digit, as int() reads it.
DigitValue == [c \in Digits |->
  CASE c = "0" -> 0 [] c = "1" -> 1 [] c = "2" -> 2 [] c = "3" -> 3
    [] c = "4" -> 4 [] c = "5" -> 5 [] c = "6" -> 6 [] c = "7" -> 7
    [] c = "8" -> 8 [] c = "9" -> 9]

\* str.lower() of one ASCII character.
lowerChar(c) ==
  IF \E k \in 1..26 : UpperCase[k] = c
  THEN LowerCase[CHOOSE k \in 1..26 : UpperCase[k] = c]
  ELSE c

\* str.lower()
lower(str) == [k \in 1..Len(str) |-> lowerChar(str[k])]

\* str.replace(old, new) for one-character old and new.
replace(str, old, new) == [k \in 1..Len(str) |-> IF str[k] = old THEN new ELSE str[k]]

\* needle occurs in str starting at index k
OccursAt(str, needle, k) ==
  /\ k >= 1
  /\ k + Len(needle) - 1 <= Len(str)
  /\ \A j \in 1..Len(needle) : str[k + j - 1] = needle[j]

HasPrefix(str, needle) == OccursAt(str, needle, 1)

HasSuffix(str, needle) == OccursAt(str, needle, Len(str) - Len(needle) + 1)

\* `needle in str`
Contains(str, needle) == \E k \in 1..Len(str) : OccursAt(str, needle, k)

\* The least element of a non-empty set of integers.
Least(S) == CHOOSE x \in S : \A y \in S : x <= y

\* The length of the longest prefix of str[k..] whose characters are in class.
RECURSIVE RunLength(_, _, _)
RunLength(str, k, class) ==
  IF k <= Len(str) /\ str[k] \in class THEN 1 + RunLength(str, k + 1, class) ELSE 0

(***************************************************************************)
(* The token stream of a text: every token with its line number, whether   *)
(* it starts an unindented line (where ^ matches), and whether its line is *)
(* indented.                                                               *)
(***************************************************************************)
RECURSIVE TokensFrom(_, _)
TokensFrom(text, n) ==
  IF n > Len(text) THEN <<>>
  ELSE [k \in 1..Len(text[n].toks) |->
          [tok |-> text[n].toks[k], ln |-> n,
           bol |-> (k = 1 /\ ~text[n].indent), ind |-> text[n].indent]]
       \o TokensFrom(text, n + 1)

Tokens(text) == TokensFrom(text, 1)

\* Tokens i and i+1 are on one line (separated by exactly one space).
SameLine(f, i) == i < Len(f) /\ f[i].ln = f[i + 1].ln

\* Exactly one whitespace character separates tokens i and i+1 (a single \s).
OneWhitespace(f, i) ==
  /\ i < Len(f)
  /\ \/ f[i].ln = f[i + 1].ln
     \/ f[i + 1].ln = f[i].ln + 1 /\ f[i + 1].bol

\* The whitespace between tokens i and i+1, as characters.
Gap(f, i) ==
  IF f[i].ln = f[i + 1].ln THEN <<" ">>
  ELSE [k \in 1..(f[i + 1].ln - f[i].ln) |-> "\n"]
       \o (IF f[i + 1].ind THEN <<" ">> ELSE <<>>)

(***************************************************************************)
(* Match objects: re.search returns None or a match with its groups.       *)
(***************************************************************************)
None == [ok |-> FALSE, group0 |-> <<>>, group1 |-> <<>>, group2 |-> <<>>]

Match(g0, g1, g2) == [ok |-> TRUE, group0 |-> g0, group1 |-> g1, group2 |-> g2]

\* lit\s+\S+ starting at the first character of token i (as after ^).
LineStartsLitToken(f, i, lit) == f[i].bol /\ f[i].tok = lit /\ i < Len(f)

\* lit\s+(\S+) anywhere: lit ends token i, and a token follows.
LitThenToken(f, i, lit) == HasSuffix(f[i].tok, lit) /\ i < Len(f)

(***************************************************************************)
(* identify_device: the vendor fingerprints, in declaration order.  A      *)
(* pattern is named by its source text.                                    *)
(***************************************************************************)
vendor_patterns ==
  << [vendor |-> Lit.Cisco,
      patterns |-> << <<"^(hostname|interface\\s+\\S+|vlan\\s+\\d+)", Lit.Cisco_IOS>>,
                      <<"^(version\\s+15|version\\s+12)", Lit.Cisco_IOS>> >>],
     [vendor |-> Lit.Huawei,
      patterns |-> << <<"^(sysname|interface\\s+\\S+|vlan\\s+\\d+)", Lit.Huawei_VRP>>,
                      <<"^\\s*#\\s*$", Lit.Huawei_VRP>> >>],
     [vendor |-> Lit.H3C,
      patterns |-> << <<"^(sysname|interface\\s+\\S+)", Lit.H3C_Comware>> >>],
     [vendor |-> Lit.Juniper,
      patterns |-> << <<"^(set\\system\\shostname|interfaces\\s+\\S+)", Lit.Juniper_JunOS>> >>],
     [vendor |-> Lit.Ruijie,
      patterns |-> << <<"^(hostname|interface\\s+\\S+)", Lit.Ruijie_OS>> >>] >>

\* vlan\s+\d+ at the start of an unindented line
LineStartsVlanId(f, i) ==
  /\ f[i].bol /\ f[i].tok = Lit.vlan /\ i < Len(f)
  /\ f[i + 1].tok[1] \in Digits

\* version\s+15|version\s+12 at the start of an unindented line
LineStartsVersion(f, i) ==
  /\ f[i].bol /\ f[i].tok = Lit.version /\ i < Len(f)
  /\ (HasPrefix(f[i + 1].tok, Lit.n15) \/ HasPrefix(f[i + 1].tok, Lit.n12))

\* set\system\shostname at the start of an unindented line: the source's
\* \s are single whitespace characters, so the text must read
\* "set", one whitespace, "ystem", one whitespace, "hostname".
LineStartsSetSystemHostname(f, i) ==
  /\ f[i].bol /\ f[i].tok = Lit.set
  /\ OneWhitespace(f, i) /\ f[i + 1].tok = Lit.ystem
  /\ OneWhitespace(f, i + 1) /\ HasPrefix(f[i + 2].tok, Lit.hostname)

\* re.search(pattern, raw_config, re.MULTILINE) for the fingerprints
re_search_fingerprint(pattern, f) ==
  CASE pattern = "^(hostname|interface\\s+\\S+|vlan\\s+\\d+)" ->
         \E i \in 1..Len(f) :
            \/ f[i].bol /\ HasPrefix(f[i].tok, Lit.hostname)
            \/ LineStartsLitToken(f, i, Lit.interface)
            \/ LineStartsVlanId(f, i)
    [] pattern = "^(version\\s+15|version\\s+12)" ->
         \E i \in 1..Len(f) : LineStartsVersion(f, i)
    [] pattern = "^(sysname|interface\\s+\\S+|vlan\\s+\\d+)" ->
         \E i \in 1..Len(f) :
            \/ f[i].bol /\ HasPrefix(f[i].tok, Lit.sysname)
            \/ LineStartsLitToken(f, i, Lit.interface)
            \/ LineStartsVlanId(f, i)
    [] pattern = "^\\s*#\\s*$" ->
         \* a line whose only token is "#"
         \E i \in 1..Len(f) :
            /\ f[i].tok = Lit.hash
            /\ (i = 1 \/ f[i - 1].ln < f[i].ln)
            /\ (i = Len(f) \/ f[i + 1].ln > f[i].ln)
    [] pattern = "^(sysname|interface\\s+\\S+)" ->
         \E i \in 1..Len(f) :
            \/ f[i].bol /\ HasPrefix(f[i].tok, Lit.sysname)
            \/ LineStartsLitToken(f, i, Lit.interface)
    [] pattern = "^(set\\system\\shostname|interfaces\\s+\\S+)" ->
         \E i \in 1..Len(f) :
            \/ LineStartsSetSystemHostname(f, i)
            \/ LineStartsLitToken(f, i, Lit.interfaces)
    [] pattern = "^(hostname|interface\\s+\\S+)" ->
         \E i \in 1..Len(f) :
            \/ f[i].bol /\ HasPrefix(f[i].tok, Lit.hostname)
            \/ LineStartsLitToken(f, i, Lit.interface)

\* The (vendor index, pattern index) pairs whose fingerprint matches the text.
FingerprintHits(f) ==
  {vp \in UNION {{<<v, p>> : p \in 1..Len(vendor_patterns[v].patterns)} :
                  v \in 1..Len(vendor_patterns)} :
     re_search_fingerprint(vendor_patterns[vp[1]].patterns[vp[2]][1], f)}

(***************************************************************************)
(* _extract_version                                                        *)
(***************************************************************************)
\* lit\s+([class]+): the first place where lit ends a token and the next
\* token starts with a character of the class; group 1 is the longest run.
SearchLitRun(f, lit, class) ==
  LET hits == {i \in 1..(Len(f) - 1) :
                 HasSuffix(f[i].tok, lit) /\ f[i + 1].tok[1] \in class}
  IN IF hits = {} THEN None
     ELSE LET i == Least(hits)
              g == SubSeq(f[i + 1].tok, 1, RunLength(f[i + 1].tok, 1, class))
          IN Match(lit \o Gap(f, i) \o g, g, <<>>)

version_patterns(vendor, f) ==
  CASE vendor = Lit.Cisco -> SearchLitRun(f, Lit.version, Digits \cup {".", "(", ")"})
    [] vendor = Lit.Huawei -> SearchLitRun(f, Lit.version, Digits \cup {"."})
    [] vendor = Lit.H3C -> SearchLitRun(f, Lit.version, Digits \cup {"."})
    [] vendor = Lit.Juniper -> SearchLitRun(f, Lit.JunosColon, Digits \cup {"."})
    [] OTHER -> None

_extract_version(meta, f) ==
  LET m == version_patterns(meta.vendor, f)
  IN IF m.ok THEN [meta EXCEPT !.software_version = m.group1] ELSE meta

(***************************************************************************)
(* _identify_device_type: device type by keyword over the lower-cased      *)
(* text, then the model.                                                   *)
(***************************************************************************)
\* A keyword is a literal, or (the one two-part keyword) lit\s+next.
type_keywords ==
  << [device_type |-> Lit.Router,
      keywords |-> << [lit |-> Lit.router, next |-> <<>>],
                      [lit |-> Lit.serial, next |-> <<>>],
                      [lit |-> Lit.WAN, next |-> <<>>] >>],
     [device_type |-> Lit.Switch,
      keywords |-> << [lit |-> Lit.switch, next |-> <<>>],
                      [lit |-> Lit.vlan, next |-> <<>>],
                      [lit |-> Lit.trunk, next |-> <<>>],
                      [lit |-> Lit.interface, next |-> Lit.GigabitEthernet] >>],
     [device_type |-> Lit.Firewall,
      keywords |-> << [lit |-> Lit.firewall, next |-> <<>>],
                      [lit |-> Lit.security_zone, next |-> <<>>],
                      [lit |-> Lit.policy, next |-> <<>>] >>],
     [device_type |-> Lit.Load_Balancer,
      keywords |-> << [lit |-> Lit.load_balance, next |-> <<>>],
                      [lit |-> Lit.slb, next |-> <<>>],
                      [lit |-> Lit.serverfarm, next |-> <<>>] >>] >>

\* raw_config.lower(), token by token
LowerTokens(f) == [i \in 1..Len(f) |-> [f[i] EXCEPT !.tok = lower(@)]]

\* re.search(keyword, config_lower)
re_search_keyword(keyword, fl) ==
  IF keyword.next = <<>>
  THEN \E i \in 1..Len(fl) : Contains(fl[i].tok, keyword.lit)
  ELSE \E i \in 1..(Len(fl) - 1) :
          HasSuffix(fl[i].tok, keyword.lit) /\ HasPrefix(fl[i + 1].tok, keyword.next)

\* The model patterns, all searched with re.IGNORECASE; "word" is
\* Catalyst\s+(\S+), "digits" is lit\d+ with an optional trailing E.
model_patterns ==
  << [kind |-> "word", lit |-> Lit.catalyst, optE |-> FALSE],
     [kind |-> "digits", lit |-> Lit.ne, optE |-> TRUE],
     [kind |-> "digits", lit |-> Lit.s, optE |-> FALSE],
     [kind |-> "digits", lit |-> Lit.mx, optE |-> FALSE],
     [kind |-> "digits", lit |-> Lit.srg, optE |-> FALSE] >>

\* The places (token, offset) where lit\d+ matches, ignoring case.
LitDigitsHits(f, lit) ==
  {ik \in UNION {{<<i, k>> : k \in 1..Len(f[i].tok)} : i \in 1..Len(f)} :
     /\ OccursAt(lower(f[ik[1]].tok), lit, ik[2])
     /\ ik[2] + Len(lit) <= Len(f[ik[1]].tok)
     /\ f[ik[1]].tok[ik[2] + Len(lit)] \in Digits}

\* re.search(pattern, raw_config, re.IGNORECASE) for one model pattern
re_search_model(p, f) ==
  IF p.kind = "word"
  THEN LET hits == {i \in 1..(Len(f) - 1) : HasSuffix(lower(f[i].tok), p.lit)}
       IN IF hits = {} THEN None
          ELSE LET i == Least(hits)
                   t == f[i].tok
               IN Match(SubSeq(t, Len(t) - Len(p.lit) + 1, Len(t)) \o Gap(f, i)
                          \o f[i + 1].tok,
                        f[i + 1].tok, <<>>)
  ELSE LET hits == LitDigitsHits(f, p.lit)
       IN IF hits = {} THEN None
          ELSE LET i == Least({h[1] : h \in hits})
                   k == Least({h[2] : h \in {x \in hits : x[1] = i}})
                   t == f[i].tok
                   n == Len(p.lit) + RunLength(t, k + Len(p.lit), Digits)
                   e == IF p.optE /\ k + n <= Len(t) /\ lowerChar(t[k + n]) = "e"
                        THEN 1 ELSE 0
               IN Match(SubSeq(t, k, k + n + e - 1), <<>>, <<>>)

_identify_device_type(meta, f) ==
  LET fl == LowerTokens(f)
      types == {t \in 1..Len(type_keywords) :
                  \E k \in 1..Len(type_keywords[t].keywords) :
                     re_search_keyword(type_keywords[t].keywords[k], fl)}
      m1 == IF types = {} THEN meta
            ELSE [meta EXCEPT !.device_type = type_keywords[Least(types)].device_type]
      models == {p \in 1..Len(model_patterns) : re_search_model(model_patterns[p], f).ok}
  IN IF models = {} THEN m1
     ELSE [m1 EXCEPT !.model = re_search_model(model_patterns[Least(models)], f).group0]

(***************************************************************************)
(* identify_device: the first vendor, in declaration order, with a         *)
(* matching fingerprint, and that vendor's first matching fingerprint.     *)
(* With no match the metadata is returned as it is.                        *)
(***************************************************************************)
\* A faulty variant of the loops: they run to the end, and the vendor
\* declared last among those that match is kept.
LastHit(hits) ==
  LET v == CHOOSE u \in {h[1] : h \in hits} : \A h \in hits : h[1] <= u
  IN <<v, Least({h[2] : h \in {x \in hits : x[1] = v}})>>

FirstHit(hits) ==
  LET v == Least({h[1] : h \in hits})
  IN <<v, Least({h[2] : h \in {x \in hits : x[1] = v}})>>

\* A faulty variant of identify_device: after the loops, the vendor and the
\* label the loop variables were left at are stored for a text that none of
\* the fingerprints matches.
identify_device_leaks_loop_variables(meta, text) ==
  LET f == Tokens(text)
      hits == FingerprintHits(f)
      last == vendor_patterns[Len(vendor_patterns)]
  IN IF hits = {}
     THEN [meta EXCEPT !.vendor = last.vendor,
                       !.config_format = last.patterns[Len(last.patterns)][2]]
     ELSE LET h == FirstHit(hits)
              m1 == [meta EXCEPT !.vendor = vendor_patterns[h[1]].vendor,
                                 !.config_format = vendor_patterns[h[1]].patterns[h[2]][2]]
          IN _identify_device_type(_extract_version(m1, f), f)

identify_device_result(meta, text) ==
  LET f == Tokens(text)
      hits == FingerprintHits(f)
  IN IF hits = {} THEN meta
     ELSE LET h == FirstHit(hits)
              m1 == [meta EXCEPT !.vendor = vendor_patterns[h[1]].vendor,
                                 !.config_format = vendor_patterns[h[1]].patterns[h[2]][2]]
          IN _identify_device_type(_extract_version(m1, f), f)

(***************************************************************************)
(* _extract_device_info                                                    *)
(***************************************************************************)
\* lit\s+(\S+): the first place where lit ends a token that has a successor.
SearchLitToken(f, lit) ==
  LET hits == {i \in 1..(Len(f) - 1) : LitThenToken(f, i, lit)}
  IN IF hits = {} THEN None
     ELSE LET i == Least(hits)
          IN Match(lit \o Gap(f, i) \o f[i + 1].tok, f[i + 1].tok, <<>>)

\* set\system\shostname\s+"?(\S+)"? : see LineStartsSetSystemHostname; the
\* opening quote is optional, the greedy \S+ keeps a closing one.
SearchSetSystemHostname(f) ==
  LET hits == {i \in 1..(Len(f) - 3) :
                 /\ HasSuffix(f[i].tok, Lit.set)
                 /\ OneWhitespace(f, i) /\ f[i + 1].tok = Lit.ystem
                 /\ OneWhitespace(f, i + 1) /\ f[i + 2].tok = Lit.hostname}
  IN IF hits = {} THEN None
     ELSE LET g == f[Least(hits) + 3].tok
              g1 == IF g[1] = "\"" /\ Len(g) > 1 THEN Tail(g) ELSE g
          IN Match(g, g1, <<>>)

\* A faulty variant of hostname_patterns: the Cisco and the Huawei entries
\* are exchanged.
hostname_patterns_exchanged(vendor, f) ==
  CASE vendor = Lit.Cisco -> SearchLitToken(f, Lit.sysname)
    [] vendor = Lit.Huawei -> SearchLitToken(f, Lit.hostname)
    [] vendor = Lit.H3C -> SearchLitToken(f, Lit.sysname)
    [] vendor = Lit.Juniper -> SearchSetSystemHostname(f)
    [] vendor = Lit.Ruijie -> SearchLitToken(f, Lit.hostname)
    [] OTHER -> None

hostname_patterns(vendor, f) ==
  CASE vendor = Lit.Cisco -> SearchLitToken(f, Lit.hostname)
    [] vendor = Lit.Huawei -> SearchLitToken(f, Lit.sysname)
    [] vendor = Lit.H3C -> SearchLitToken(f, Lit.sysname)
    [] vendor = Lit.Juniper -> SearchSetSystemHostname(f)
    [] vendor = Lit.Ruijie -> SearchLitToken(f, Lit.hostname)
    [] OTHER -> None

\* `groups` runs of `width` hex digits joined by sep start at str[k].
HexGroupsAt(str, k, groups, width, sep) ==
  /\ k + groups * width + groups - 2 <= Len(str)
  /\ \A g \in 0..(groups - 1) :
        /\ \A j \in 0..(width - 1) : str[k + g * (width + 1) + j] \in HexDigits
        /\ g < groups - 1 => str[k + g * (width + 1) + width] = sep

\* The length of the match of mac_pattern at str[k], 0 for none; the three
\* alternatives are tried in their order.
MacLengthAt(str, k) ==
  IF HexGroupsAt(str, k, 6, 2, ":") THEN 17
  ELSE IF HexGroupsAt(str, k, 6, 2, ".") THEN 17
  ELSE IF HexGroupsAt(str, k, 3, 4, ".") THEN 14
  ELSE 0

\* re.search(mac_pattern, raw_config)
SearchMac(f) ==
  LET hits == {ik \in UNION {{<<i, k>> : k \in 1..Len(f[i].tok)} : i \in 1..Len(f)} :
                 MacLengthAt(f[ik[1]].tok, ik[2]) > 0}
  IN IF hits = {} THEN None
     ELSE LET h == FirstHit(hits)
              t == f[h[1]].tok
          IN Match(SubSeq(t, h[2], h[2] + MacLengthAt(t, h[2]) - 1), <<>>, <<>>)

\* System\s+[Ss]erial\s+[Nn]umber\s*:\s*(\S+) starting in token i
\* (re.IGNORECASE): the colon may end the "number" token, stand alone, or
\* start the value's token.  The result is group 1, <<>> for no match.
SerialNumberAt(f, i) ==
  IF ~(/\ HasSuffix(lower(f[i].tok), Lit.system)
       /\ i + 2 <= Len(f)
       /\ lower(f[i + 1].tok) = Lit.serial
       /\ HasPrefix(lower(f[i + 2].tok), Lit.number))
  THEN <<>>
  ELSE LET t == f[i + 2].tok
           rest == SubSeq(t, Len(Lit.number) + 1, Len(t))
       IN IF rest = <<>>
          THEN IF i + 3 <= Len(f) /\ f[i + 3].tok[1] = ":"
               THEN IF Len(f[i + 3].tok) > 1 THEN Tail(f[i + 3].tok)
                    ELSE IF i + 4 <= Len(f) THEN f[i + 4].tok ELSE <<>>
               ELSE <<>>
          ELSE IF rest[1] = ":"
               THEN IF Len(rest) > 1 THEN Tail(rest)
                    ELSE IF i + 3 <= Len(f) THEN f[i + 3].tok ELSE <<>>
               ELSE <<>>

\* Processor\s+board ID\s+(\S+) starting in token i (re.IGNORECASE); the
\* space of "board ID" is a literal one.
BoardIdAt(f, i) ==
  IF /\ HasSuffix(lower(f[i].tok), Lit.processor)
     /\ i + 3 <= Len(f)
     /\ lower(f[i + 1].tok) = Lit.board
     /\ SameLine(f, i + 1)
     /\ lower(f[i + 2].tok) = Lit.id
  THEN f[i + 3].tok
  ELSE <<>>

\* re.search(serial_pattern, raw_config, re.IGNORECASE)
SearchSerial(f) ==
  LET hits == {i \in 1..Len(f) : SerialNumberAt(f, i) # <<>> \/ BoardIdAt(f, i) # <<>>}
  IN IF hits = {} THEN None
     ELSE LET i == Least(hits)
          IN Match(<<>>, SerialNumberAt(f, i), BoardIdAt(f, i))

\* The length of the match of \d+\.\d+\.\d+\.\d+ at the start of str, 0 for none.
DottedQuadLength(str) ==
  LET d1 == RunLength(str, 1, Digits)
      dot1 == d1 > 0 /\ d1 + 1 <= Len(str) /\ str[d1 + 1] = "."
      d2 == IF dot1 THEN RunLength(str, d1 + 2, Digits) ELSE 0
      dot2 == d2 > 0 /\ d1 + d2 + 2 <= Len(str) /\ str[d1 + d2 + 2] = "."
      d3 == IF dot2 THEN RunLength(str, d1 + d2 + 3, Digits) ELSE 0
      dot3 == d3 > 0 /\ d1 + d2 + d3 + 3 <= Len(str) /\ str[d1 + d2 + d3 + 3] = "."
      d4 == IF dot3 THEN RunLength(str, d1 + d2 + d3 + 4, Digits) ELSE 0
  IN IF d4 > 0 THEN d1 + d2 + d3 + d4 + 3 ELSE 0

\* ip\s+address\s+(\d+\.\d+\.\d+\.\d+)
SearchIpAddress(f) ==
  LET hits == {i \in 1..(Len(f) - 2) :
                 /\ HasSuffix(f[i].tok, Lit.ip)
                 /\ f[i + 1].tok = Lit.address
                 /\ DottedQuadLength(f[i + 2].tok) > 0}
  IN IF hits = {} THEN None
     ELSE LET t == f[Least(hits) + 2].tok
          IN Match(<<>>, SubSeq(t, 1, DottedQuadLength(t)), <<>>)

_extract_device_info(meta, info, f) ==
  LET h == hostname_patterns(meta.vendor, f)
      mac == SearchMac(f)
      ser == SearchSerial(f)
      ip == SearchIpAddress(f)
  IN [hostname |-> IF h.ok THEN h.group1 ELSE info.hostname,
      mac_address |-> IF mac.ok THEN mac.group0 ELSE info.mac_address,
      serial_number |-> IF ser.ok
                        THEN (IF ser.group1 # <<>> THEN ser.group1 ELSE ser.group2)
                        ELSE info.serial_number,
      management_ip |-> IF ip.ok THEN ip.group1 ELSE info.management_ip]

(***************************************************************************)
(* _extract_interfaces                                                     *)
(***************************************************************************)
\* The vendors with an entry in interface_patterns (all three entries are
\* the same pattern, interface\s+(\S+)(.*?)(?=interface|\Z)).
interface_patterns == {Lit.Cisco, Lit.Huawei, Lit.H3C}

\* The first index at which needle occurs in str, 0 for none.
IndexOf(str, needle) ==
  LET at == {k \in 1..Len(str) : OccursAt(str, needle, k)}
  IN IF at = {} THEN 0 ELSE Least(at)

\* re.findall(pattern, raw_config, re.DOTALL) from token cur on: the
\* (name, block) pairs.  A match starts where "interface" ends a token and
\* a token (the name) follows; the block runs from the end of the name to
\* the next occurrence of "interface" anywhere, or to the end of the text.
\* When that occurrence lies inside a token, the characters before it are
\* the block's last token.
RECURSIVE findall_interfaces(_, _)
findall_interfaces(f, cur) ==
  LET starts == {i \in cur..(Len(f) - 1) : LitThenToken(f, i, Lit.interface)}
  IN IF starts = {} THEN <<>>
     ELSE LET i == Least(starts)
              ends == {j \in (i + 2)..Len(f) : Contains(f[j].tok, Lit.interface)}
              j == IF ends = {} THEN Len(f) + 1 ELSE Least(ends)
              k == IF ends = {} THEN 1 ELSE IndexOf(f[j].tok, Lit.interface)
              part == IF k > 1
                      THEN << [f[j] EXCEPT !.tok = SubSeq(f[j].tok, 1, k - 1)] >>
                      ELSE <<>>
          IN << <<f[i + 1].tok, SubSeq(f, i + 2, j - 1) \o part>> >>
             \o findall_interfaces(f, j)

\* " ".join of the tokens b[from..to]
RECURSIVE JoinTokens(_, _, _)
JoinTokens(b, from, to) ==
  IF from > to THEN <<>>
  ELSE IF from = to THEN b[from].tok
  ELSE b[from].tok \o <<" ">> \o JoinTokens(b, from + 1, to)

\* A faulty variant of the address search: the pattern ends after the
\* address, and the mask is not captured.
SearchIpAlone(b) ==
  LET hits == {a \in 1..(Len(b) - 2) :
                 /\ HasSuffix(b[a].tok, Lit.ip)
                 /\ b[a + 1].tok = Lit.address
                 /\ DottedQuadLength(b[a + 2].tok) = Len(b[a + 2].tok)}
  IN IF hits = {} THEN None
     ELSE Match(<<>>, b[Least(hits) + 2].tok, <<>>)

\* ip\s+address\s+(\d+\.\d+\.\d+\.\d+)\s+(\S+) in a block: the address is a
\* whole token and the mask is the token after it.
SearchIpAndMask(b) ==
  LET hits == {a \in 1..(Len(b) - 3) :
                 /\ HasSuffix(b[a].tok, Lit.ip)
                 /\ b[a + 1].tok = Lit.address
                 /\ DottedQuadLength(b[a + 2].tok) = Len(b[a + 2].tok)}
  IN IF hits = {} THEN None
     ELSE LET a == Least(hits)
          IN Match(<<>>, b[a + 2].tok, b[a + 3].tok)

\* description\s+(\S.*) in a block, then .strip(): the rest of the line of
\* the token that follows "description".
SearchDescription(b) ==
  LET hits == {d \in 1..(Len(b) - 1) : HasSuffix(b[d].tok, Lit.description)}
  IN IF hits = {} THEN None
     ELSE LET d == Least(hits)
              last == Least({e \in (d + 1)..Len(b) :
                               e = Len(b) \/ b[e + 1].ln # b[d + 1].ln})
          IN Match(<<>>, JoinTokens(b, d + 1, last), <<>>)

\* A faulty variant of the status branch: 'shutdown' is tested first, and
\* 'no shutdown' contains it.
interface_status_shutdown_first(b) ==
  IF \E a \in 1..Len(b) : Contains(b[a].tok, Lit.shutdown)
  THEN Lit.down
  ELSE IF \E a \in 1..Len(b) : Contains(b[a].tok, Lit.enable)
  THEN Lit.up
  ELSE <<>>

\* The status branch: 'no shutdown' in config_block or 'enable' in
\* config_block, elif 'shutdown' in config_block.
interface_status(b) ==
  IF \/ \E a \in 1..(Len(b) - 1) :
          /\ HasSuffix(b[a].tok, Lit.no)
          /\ b[a].ln = b[a + 1].ln
          /\ HasPrefix(b[a + 1].tok, Lit.shutdown)
     \/ \E a \in 1..Len(b) : Contains(b[a].tok, Lit.enable)
  THEN Lit.up
  ELSE IF \E a \in 1..Len(b) : Contains(b[a].tok, Lit.shutdown)
  THEN Lit.down
  ELSE <<>>

\* One InterfaceInfo from a (name, block) match.
interface_info(match) ==
  LET b == match[2]
      ipm == SearchIpAndMask(b)
      desc == SearchDescription(b)
  IN [name |-> match[1],
      ip_address |-> IF ipm.ok THEN ipm.group1 ELSE <<>>,
      subnet_mask |-> IF ipm.ok THEN ipm.group2 ELSE <<>>,
      status |-> interface_status(b),
      description |-> IF desc.ok THEN desc.group1 ELSE <<>>]

\* A faulty variant of _extract_interfaces: the block pattern is applied
\* whatever the vendor.
_extract_interfaces_any_vendor(meta, ifaces, f) ==
  LET matches == findall_interfaces(f, 1)
  IN ifaces \o [n \in 1..Len(matches) |-> interface_info(matches[n])]

\* The list self.interfaces after _extract_interfaces: every match is
\* appended to the list as it stands.
_extract_interfaces(meta, ifaces, f) ==
  IF meta.vendor \notin interface_patterns THEN ifaces
  ELSE LET matches == findall_interfaces(f, 1)
       IN ifaces \o [n \in 1..Len(matches) |-> interface_info(matches[n])]

(***************************************************************************)
(* validate_quality                                                        *)
(***************************************************************************)
\* The characters str.strip() removes, and int() skips around a number.
Whitespace == {" ", "\n", "\t", "\r"}

\* `not value or value.strip() == ''`
IsBlank(value) == \A k \in 1..Len(value) : value[k] \in Whitespace

\* $ matches at index k of str: at the end, or before a final newline.
AtDollar(str, k) == k = Len(str) + 1 \/ (k = Len(str) /\ str[k] = "\n")

\* The {0,62} of the hostname pattern.
HostnameTailMax == 62

\* re.match(r'^[a-zA-Z][a-zA-Z0-9\-]{0,62}$', hostname)
_validate_hostname(hostname) ==
  /\ Len(hostname) >= 1
  /\ hostname[1] \in Letters
  /\ LET n == RunLength(hostname, 2, Letters \cup Digits \cup {"-"})
     IN n <= HostnameTailMax /\ AtDollar(hostname, n + 2)

\* int(octet) for a run of digits str[from..to]
RECURSIVE DecimalValue(_, _, _)
DecimalValue(str, from, to) ==
  IF from > to THEN 0
  ELSE 10 * DecimalValue(str, from, to - 1) + DigitValue[str[to]]

\* The largest value of an octet.
OctetMax == 255

\* re.match(r'^(\d{1,3}\.){3}\d{1,3}$', ip), then every octet of
\* ip.split('.') read by int() lies in 0..255.
_validate_ip(ip) ==
  LET d1 == RunLength(ip, 1, Digits)
      ok1 == d1 \in 1..3 /\ d1 + 1 <= Len(ip) /\ ip[d1 + 1] = "."
      s2 == d1 + 2
      d2 == IF ok1 THEN RunLength(ip, s2, Digits) ELSE 0
      ok2 == d2 \in 1..3 /\ s2 + d2 <= Len(ip) /\ ip[s2 + d2] = "."
      s3 == s2 + d2 + 1
      d3 == IF ok2 THEN RunLength(ip, s3, Digits) ELSE 0
      ok3 == d3 \in 1..3 /\ s3 + d3 <= Len(ip) /\ ip[s3 + d3] = "."
      s4 == s3 + d3 + 1
      d4 == IF ok3 THEN RunLength(ip, s4, Digits) ELSE 0
  IN /\ d4 \in 1..3
     /\ AtDollar(ip, s4 + d4)
     /\ DecimalValue(ip, 1, d1) <= OctetMax
     /\ DecimalValue(ip, s2, s2 + d2 - 1) <= OctetMax
     /\ DecimalValue(ip, s3, s3 + d3 - 1) <= OctetMax
     /\ DecimalValue(ip, s4, s4 + d4 - 1) <= OctetMax

required_fields ==
  [device_info |-> <<"hostname", "management_ip">>, interfaces |-> <<"name">>]

\* str(n) for a natural number, as an f-string formats idx.
RECURSIVE str(_)
str(n) ==
  LET digit == CHOOSE c \in Digits : DigitValue[c] = n % 10
  IN IF n < 10 THEN <<digit>> ELSE str(n \div 10) \o <<digit>>

\* A faulty variant of the device_info loop: a value of invalid format is
\* not counted as filled, and no warning is appended for it.
check_device_field_invalid_unreported(field, value) ==
  IF IsBlank(value)
  THEN [filled |-> 0,
        warnings |-> << <<"Missing required field: device_info." \o field, <<>>>> >>]
  ELSE IF field = "hostname"
  THEN [filled |-> IF _validate_hostname(value) THEN 1 ELSE 0, warnings |-> <<>>]
  ELSE IF field = "management_ip"
  THEN [filled |-> IF _validate_ip(value) THEN 1 ELSE 0, warnings |-> <<>>]
  ELSE [filled |-> 1, warnings |-> <<>>]

\* One pass of the device_info loop: what the field adds to filled_fields
\* and to warnings (total_fields grows by one per field).
check_device_field(field, value) ==
  IF IsBlank(value)
  THEN [filled |-> 0,
        warnings |-> << <<"Missing required field: device_info." \o field, <<>>>> >>]
  ELSE IF field = "hostname"
  THEN IF ~_validate_hostname(value)
       THEN [filled |-> 0, warnings |-> << <<"Invalid hostname format: {value}", value>> >>]
       ELSE [filled |-> 1, warnings |-> <<>>]
  ELSE IF field = "management_ip"
  THEN IF ~_validate_ip(value)
       THEN [filled |-> 0, warnings |-> << <<"Invalid IP format: {value}", value>> >>]
       ELSE [filled |-> 1, warnings |-> <<>>]
  ELSE [filled |-> 1, warnings |-> <<>>]

\* A faulty variant of the interface loop: total_fields is not raised for
\* a declared ip_address.
check_interface_ip_uncounted(idx, interface) ==
  LET named == interface.name # <<>>
      has_ip == interface.ip_address # <<>>
      ip_ok == has_ip /\ _validate_ip(interface.ip_address)
  IN [total |-> 0,
      filled |-> (IF named THEN 1 ELSE 0) + (IF ip_ok THEN 1 ELSE 0),
      warnings |->
        (IF named THEN <<>>
         ELSE << <<"Interface {idx}: Missing interface name", str(idx)>> >>)
        \o (IF has_ip /\ ~ip_ok
            THEN << <<"Interface {name}: Invalid IP address", interface.name>> >>
            ELSE <<>>)]

\* One pass of the interface loop, idx counted from 0: what the interface
\* adds to total_fields beyond its name, to filled_fields and to warnings.
check_interface(idx, interface) ==
  LET named == interface.name # <<>>
      has_ip == interface.ip_address # <<>>
      ip_ok == has_ip /\ _validate_ip(interface.ip_address)
  IN [total |-> IF has_ip THEN 1 ELSE 0,
      filled |-> (IF named THEN 1 ELSE 0) + (IF ip_ok THEN 1 ELSE 0),
      warnings |->
        (IF named THEN <<>>
         ELSE << <<"Interface {idx}: Missing interface name", str(idx)>> >>)
        \o (IF has_ip /\ ~ip_ok
            THEN << <<"Interface {name}: Invalid IP address", interface.name>> >>
            ELSE <<>>)]

\* The sums and the concatenation of the passes' contributions.
RECURSIVE SumField(_, _)
SumField(checks, field) ==
  IF checks = <<>> THEN 0 ELSE checks[1][field] + SumField(Tail(checks), field)

RECURSIVE AllWarnings(_)
AllWarnings(checks) ==
  IF checks = <<>> THEN <<>> ELSE checks[1].warnings \o AllWarnings(Tail(checks))

\* The 0.9 of `quality_score >= 0.9`, as the fraction 9/10.
ThresholdNum == 9

ThresholdDen == 10

\* quality_score as a fraction: filled_fields / total_fields, 0.0 as 0/1.
quality_score(filled_fields, total_fields) ==
  IF total_fields > 0 THEN [num |-> filled_fields, den |-> total_fields]
  ELSE [num |-> 0, den |-> 1]

\* A faulty variant of is_valid: the score alone decides.
is_valid_by_score_alone(score, warnings) ==
  score.num * ThresholdDen >= ThresholdNum * score.den

\* is_valid = quality_score >= 0.9 and len(warnings) == 0
is_valid(score, warnings) ==
  score.num * ThresholdDen >= ThresholdNum * score.den /\ Len(warnings) = 0

\* validate_quality(data): the returned triple, with the two counters.
validate_quality_result(data) ==
  LET fields == required_fields.device_info
      dchecks == [k \in 1..Len(fields) |->
                    check_device_field(fields[k], data.device_info[fields[k]])]
      ichecks == [n \in 1..Len(data.interfaces) |->
                    check_interface(n - 1, data.interfaces[n])]
      total_fields == Len(fields) + Len(data.interfaces) + SumField(ichecks, "total")
      filled_fields == SumField(dchecks, "filled") + SumField(ichecks, "filled")
      warnings == AllWarnings(dchecks) \o AllWarnings(ichecks)
      score == quality_score(filled_fields, total_fields)
  IN [is_valid |-> is_valid(score, warnings), quality_score |-> score,
      warnings |-> warnings,
      filled_fields |-> filled_fields, total_fields |-> total_fields]

(***************************************************************************)
(* The rule sets.  A pattern is a Python str, named here by its source     *)
(* text; a rule set is a dict from field name to pattern.                  *)
(***************************************************************************)
\* Python's None where a str is expected.
PyNone == "None"

\* A generate_parsing_rules whose Huawei branch is an `else`: every vendor
\* but Cisco gets the rules written for Huawei.
generate_parsing_rules_with_default(meta) ==
  [hostname |-> IF meta.vendor = Lit.Cisco THEN "hostname\\s+(?P<hostname>\\S+)"
                ELSE "sysname\\s+(?P<hostname>\\S+)",
   interface |-> "interface\\s+(?P<interface>\\S+)",
   ip_address |-> "ip\\s+address\\s+(?P<ip>\\d+\\.\\d+\\.\\d+\\.\\d+)\\s+(?P<mask>\\S+)",
   vlan |-> "vlan\\s+(?P<vlan_id>\\d+)",
   description |-> "description\\s+(?P<description>.*)"]

\* The rules dict generate_parsing_rules builds for a vendor.
generate_parsing_rules_result(meta) ==
  IF meta.vendor = Lit.Cisco
  THEN [hostname |-> "hostname\\s+(?P<hostname>\\S+)",
        interface |-> "interface\\s+(?P<interface>\\S+)",
        ip_address |-> "ip\\s+address\\s+(?P<ip>\\d+\\.\\d+\\.\\d+\\.\\d+)\\s+(?P<mask>\\S+)",
        vlan |-> "vlan\\s+(?P<vlan_id>\\d+)",
        description |-> "description\\s+(?P<description>.*)"]
  ELSE IF meta.vendor = Lit.Huawei
  THEN [hostname |-> "sysname\\s+(?P<hostname>\\S+)",
        interface |-> "interface\\s+(?P<interface>\\S+)",
        ip_address |-> "ip\\s+address\\s+(?P<ip>\\d+\\.\\d+\\.\\d+\\.\\d+)\\s+(?P<mask>\\S+)",
        vlan |-> "vlan\\s+(?P<vlan_id>\\d+)",
        description |-> "description\\s+(?P<description>.*)"]
  ELSE <<>>

\* The match of a rule pattern that starts in token i: whether there is
\* one, its groupdict, and the token from which the search goes on.
rule_match_at(pattern, f, i) ==
  LET lit_token(lit, group) ==
        IF LitThenToken(f, i, lit)
        THEN [ok |-> TRUE, groupdict |-> [g \in {group} |-> f[i + 1].tok], next |-> i + 2]
        ELSE [ok |-> FALSE, groupdict |-> <<>>, next |-> i + 1]
      \* "?(?P<hostname>\S+)"? : an opening quote is dropped
      lit_quoted(lit) ==
        IF LitThenToken(f, i, lit)
        THEN LET g == f[i + 1].tok
             IN [ok |-> TRUE,
                 groupdict |-> [hostname |->
                                  IF g[1] = "\"" /\ Len(g) > 1 THEN Tail(g) ELSE g],
                 next |-> i + 2]
        ELSE [ok |-> FALSE, groupdict |-> <<>>, next |-> i + 1]
  IN CASE pattern = "hostname\\s+(?P<hostname>\\S+)" -> lit_token(Lit.hostname, "hostname")
       [] pattern = "sysname\\s+(?P<hostname>\\S+)" -> lit_token(Lit.sysname, "hostname")
       [] pattern = "host-name\\s+(?P<hostname>\\S+)" -> lit_token(Lit.host_name, "hostname")
       [] pattern = "set-system-hostname\\s+\"?(?P<hostname>\\S+)\"?" ->
            lit_quoted(Lit.set_system_hostname)
       [] pattern = "interface\\s+(?P<interface>\\S+)" -> lit_token(Lit.interface, "interface")
       [] pattern = "ip\\s+address\\s+(?P<ip>\\d+\\.\\d+\\.\\d+\\.\\d+)\\s+(?P<mask>\\S+)" ->
            IF /\ i + 3 <= Len(f)
               /\ HasSuffix(f[i].tok, Lit.ip)
               /\ f[i + 1].tok = Lit.address
               /\ DottedQuadLength(f[i + 2].tok) = Len(f[i + 2].tok)
            THEN [ok |-> TRUE,
                  groupdict |-> [ip |-> f[i + 2].tok, mask |-> f[i + 3].tok],
                  next |-> i + 4]
            ELSE [ok |-> FALSE, groupdict |-> <<>>, next |-> i + 1]
       [] pattern = "vlan\\s+(?P<vlan_id>\\d+)" ->
            IF /\ i + 1 <= Len(f)
               /\ HasSuffix(f[i].tok, Lit.vlan)
               /\ f[i + 1].tok[1] \in Digits
            THEN [ok |-> TRUE,
                  groupdict |-> [vlan_id |-> SubSeq(f[i + 1].tok, 1,
                                                   RunLength(f[i + 1].tok, 1, Digits))],
                  next |-> i + 1]
            ELSE [ok |-> FALSE, groupdict |-> <<>>, next |-> i + 1]
       [] pattern = "description\\s+(?P<description>.*)" ->
            \* \s+ runs to the next token, .* to the end of that token's line
            IF HasSuffix(f[i].tok, Lit.description)
            THEN IF i = Len(f)
                 THEN [ok |-> TRUE, groupdict |-> [description |-> <<>>], next |-> i + 1]
                 ELSE LET last == Least({e \in (i + 1)..Len(f) :
                                           e = Len(f) \/ f[e + 1].ln # f[i + 1].ln})
                      IN [ok |-> TRUE,
                          groupdict |-> [description |-> JoinTokens(f, i + 1, last)],
                          next |-> last + 1]
            ELSE [ok |-> FALSE, groupdict |-> <<>>, next |-> i + 1]

\* re.search(pattern, sample) is not None
re_search_rule(pattern, f) == \E i \in 1..Len(f) : rule_match_at(pattern, f, i).ok

\* [m.groupdict() for m in re.finditer(pattern, raw_config, re.MULTILINE)]
RECURSIVE re_finditer_rule(_, _, _)
re_finditer_rule(pattern, f, cur) ==
  IF cur > Len(f) THEN <<>>
  ELSE LET m == rule_match_at(pattern, f, cur)
       IN (IF m.ok THEN <<m.groupdict>> ELSE <<>>) \o re_finditer_rule(pattern, f, m.next)

\* _generate_adaptive_pattern: the first hostname candidate that matches
\* the sample, None for the other fields and when none matches.
adaptive_patterns ==
  << "hostname\\s+(?P<hostname>\\S+)",
     "sysname\\s+(?P<hostname>\\S+)",
     "set-system-hostname\\s+\"?(?P<hostname>\\S+)\"?",
     "host-name\\s+(?P<hostname>\\S+)" >>

\* A faulty variant of _generate_adaptive_pattern: the loop does not stop
\* at the first candidate that matches, and the last one is returned.
_generate_adaptive_pattern_last_match(field_name, f) ==
  IF field_name = "hostname"
  THEN LET found == {k \in 1..Len(adaptive_patterns) : re_search_rule(adaptive_patterns[k], f)}
       IN IF found = {} THEN PyNone
          ELSE adaptive_patterns[CHOOSE k \in found : \A j \in found : j <= k]
  ELSE PyNone

_generate_adaptive_pattern(field_name, f) ==
  IF field_name = "hostname"
  THEN LET found == {k \in 1..Len(adaptive_patterns) : re_search_rule(adaptive_patterns[k], f)}
       IN IF found = {} THEN PyNone ELSE adaptive_patterns[Least(found)]
  ELSE PyNone

\* One pass of optimize_rules' outer loop: the rules after one sample.
optimize_sample(rules, sample) ==
  LET f == Tokens(sample)
  IN [field_name \in DOMAIN rules |->
        IF ~re_search_rule(rules[field_name], f)
        THEN LET new_pattern == _generate_adaptive_pattern(field_name, f)
             IN IF new_pattern # PyNone THEN new_pattern ELSE rules[field_name]
        ELSE rules[field_name]]

RECURSIVE optimize_rules_result(_, _)
optimize_rules_result(rules, failed_samples) ==
  IF failed_samples = <<>> THEN rules
  ELSE optimize_rules_result(optimize_sample(rules, failed_samples[1]), Tail(failed_samples))

\* The default rule file name of save_rules:
\* f"{vendor_slug}_{device_slug}.yaml", each slug .lower().replace(' ', '_').
default_rule_file(meta) ==
  replace(lower(meta.vendor), " ", "_") \o <<"_">>
    \o replace(lower(meta.device_type), " ", "_") \o Lit.yaml

\* The document save_rules writes.  created_at is the wall clock at the
\* call; load_rules never reads it.
rule_data(meta, rules) ==
  [metadata |-> meta, patterns |-> rules, created_at |-> "datetime.now().isoformat()",
   version |-> "1.0.0"]

(***************************************************************************)
(* The rule file as bytes.  yaml.dump writes a mapping in block style with *)
(* its keys sorted, one "key: value" line for a scalar and the lines of a  *)
(* nested mapping indented by two spaces; an empty str is written '', an   *)
(* empty dict {}, and a str that reads as a number or a timestamp in       *)
(* quotes.  What the writers' race depends on is the number of bytes of    *)
(* each document: a file is held as the sequence of its segments, each the *)
(* bytes from..to of the dump of one document.                             *)
(***************************************************************************)
\* len(key) of the keys of the document.
yaml_key_len ==
  [created_at |-> 10, metadata |-> 8, patterns |-> 8, version |-> 7,
   vendor |-> 6, device_type |-> 11, model |-> 5, software_version |-> 16,
   config_format |-> 13,
   hostname |-> 8, interface |-> 9, ip_address |-> 10, vlan |-> 4, description |-> 11]

\* len(pattern) of the rule patterns, which are written as they are.
yaml_pattern_len(pattern) ==
  CASE pattern = "hostname\\s+(?P<hostname>\\S+)" -> 28
    [] pattern = "sysname\\s+(?P<hostname>\\S+)" -> 27
    [] pattern = "host-name\\s+(?P<hostname>\\S+)" -> 29
    [] pattern = "set-system-hostname\\s+\"?(?P<hostname>\\S+)\"?" -> 43
    [] pattern = "interface\\s+(?P<interface>\\S+)" -> 30
    [] pattern = "ip\\s+address\\s+(?P<ip>\\d+\\.\\d+\\.\\d+\\.\\d+)\\s+(?P<mask>\\S+)" -> 57
    [] pattern = "vlan\\s+(?P<vlan_id>\\d+)" -> 23
    [] pattern = "description\\s+(?P<description>.*)" -> 33

\* The bytes of a str value: '' for the empty str, quotes around a str of
\* digits and dots, the str itself otherwise.
yaml_str_len(value) ==
  IF value = <<>> \/ \A k \in 1..Len(value) : value[k] \in Digits \cup {"."}
  THEN Len(value) + 2
  ELSE Len(value)

\* The bytes of the line "<indent>key: value\n" for a value of n bytes.
yaml_line_len(indent, key, n) == indent + yaml_key_len[key] + 2 + n + 1

\* The bytes of the lines of a nested mapping whose values have the
\* lengths lens.
RECURSIVE yaml_block_len(_)
yaml_block_len(lens) ==
  IF DOMAIN lens = {} THEN 0
  ELSE LET k == CHOOSE x \in DOMAIN lens : TRUE
       IN yaml_line_len(2, k, lens[k])
            + yaml_block_len([x \in DOMAIN lens \ {k} |-> lens[x]])

\* len(yaml.dump(rule_data)): created_at is an isoformat() timestamp of 26
\* characters in quotes, version the five characters 1.0.0.
yaml_dump_len(doc) ==
  yaml_line_len(0, "created_at", 28)
  + yaml_key_len.metadata + 2
  + yaml_block_len([k \in DOMAIN doc.metadata |-> yaml_str_len(doc.metadata[k])])
  + (IF DOMAIN doc.patterns = {} THEN yaml_line_len(0, "patterns", 2)
     ELSE yaml_key_len.patterns + 2
          + yaml_block_len([k \in DOMAIN doc.patterns |-> yaml_pattern_len(doc.patterns[k])]))
  + yaml_line_len(0, "version", 5)

\* What a file holds beyond its first n bytes.
RECURSIVE file_beyond(_, _)
file_beyond(content, n) ==
  IF content = <<>> THEN <<>>
  ELSE LET size == content[1].to - content[1].from + 1
       IN IF n >= size THEN file_beyond(Tail(content), n - size)
          ELSE IF n = 0 THEN content
          ELSE <<[content[1] EXCEPT !.from = @ + n]>> \o Tail(content)

\* f.write(data) on a file opened with 'w' and not written before: the
\* bytes go to offset 0 and up, over what the file holds there; what it
\* holds beyond them stays.
file_write(content, doc) ==
  <<[doc |-> doc, from |-> 1, to |-> yaml_dump_len(doc)]>>
    \o file_beyond(content, yaml_dump_len(doc))

\* The file holds the dump of doc, the whole of it and nothing else.
file_holds(content, doc) ==
  content = <<[doc |-> doc, from |-> 1, to |-> yaml_dump_len(doc)]>>

(***************************************************************************)
(* LLMConfigParser.extract_json_from_response.  A response is a sequence   *)
(* of pieces separated by blanks: the braces, a key with its colon, a      *)
(* number, a word of prose, and the two fences of a code block: "fence    *)
(* json" is three backquotes followed by json, "fence" three backquotes.   *)
(***************************************************************************)
ResponsePieces == {"{", "}", "\"a\":", "1", "prose", "fence json", "fence"}

\* json.loads(pieces) returns: the pieces are one JSON value, a number or
\* an object that is empty or has one member.
RECURSIVE json_loads_ok(_)
json_loads_ok(pieces) ==
  \/ pieces = <<"1">>
  \/ /\ Len(pieces) >= 2
     /\ pieces[1] = "{"
     /\ pieces[Len(pieces)] = "}"
     /\ \/ Len(pieces) = 2
        \/ /\ pieces[2] = "\"a\":"
           /\ json_loads_ok(SubSeq(pieces, 3, Len(pieces) - 1))

\* re.search of the code block pattern with re.DOTALL: group 1 is lazy, it
\* runs from the first opening fence to the next three backquotes, those
\* of another opening fence included.
search_json_block(response) ==
  LET opening == {i \in 1..Len(response) : response[i] = "fence json"}
      i == Least(opening)
      closing == {j \in (i + 1)..Len(response) : response[j] \in {"fence", "fence json"}}
  IN IF opening = {} THEN [ok |-> FALSE]
     ELSE IF closing = {} THEN [ok |-> FALSE]
     ELSE [ok |-> TRUE, group |-> SubSeq(response, i + 1, Least(closing) - 1)]

\* re.search(r'\{.*\}', response, re.DOTALL): .* is greedy, the match runs
\* from the first { to the last }.
search_braces(response) ==
  LET opening == {i \in 1..Len(response) : response[i] = "{"}
      i == Least(opening)
      closing == {j \in (i + 1)..Len(response) : response[j] = "}"}
  IN IF opening = {} THEN [ok |-> FALSE]
     ELSE IF closing = {} THEN [ok |-> FALSE]
     ELSE [ok |-> TRUE,
           group |-> SubSeq(response, i, CHOOSE j \in closing : \A k \in closing : k <= j)]

\* What extract_json_from_response returns, or the error it raises.
extract_json_result(response) ==
  LET json_match == search_json_block(response)
      brace_match == search_braces(response)
  IN IF json_loads_ok(response) THEN [value |-> response]
     ELSE IF json_match.ok /\ json_loads_ok(json_match.group)
     THEN [value |-> json_match.group]
     ELSE IF brace_match.ok /\ json_loads_ok(brace_match.group)
     THEN [value |-> brace_match.group]
     ELSE [raised |-> "ValueError"]

(***************************************************************************)
(* DatabaseManager.  The database is held as its two tables and the        *)
(* sequence of device_metadata.id.  A table is a function from the columns *)
(* its INSERT names as conflict target, which PostgreSQL demands a unique  *)
(* index on, to the other columns of the row.                              *)
(***************************************************************************)
\* _infer_category_from_rule_name: the first of the tests that finds its
\* word in rule_name.lower().
_infer_category_from_rule_name(rule_name) ==
  LET chars == [hostname |-> Lit.hostname, interface |-> Lit.interface,
                ip_address |-> Lit.ip \o <<"_">> \o Lit.address, vlan |-> Lit.vlan,
                description |-> Lit.description]
      rule_lower == lower(chars[rule_name])
  IN IF Contains(rule_lower, Lit.hostname) THEN "hostname"
     ELSE IF Contains(rule_lower, Lit.interface) THEN "interface"
     ELSE IF Contains(rule_lower, Lit.vlan) THEN "vlan"
     ELSE IF Contains(rule_lower, Lit.ip) \/ Contains(rule_lower, Lit.address)
     THEN "ip_address"
     ELSE IF Contains(rule_lower, <<"m","a","c">>) THEN "mac_address"
     ELSE IF Contains(rule_lower, Lit.serial) THEN "serial_number"
     ELSE IF Contains(rule_lower, Lit.description) THEN "description"
     ELSE "general"

\* save_parsing_rule in one transaction: the database after the commit,
\* and the id returned.  The device_metadata row is inserted, or found by
\* (vendor, device_type, model, software_version); the default of id is
\* taken from the sequence before the conflict is seen.  Each pattern is
\* inserted under its rule_name, or, ON CONFLICT (rule_name), replaces the
\* regex_pattern of the row that has this rule_name, whose other columns,
\* device_metadata_id among them, stay.
save_parsing_rule_result(db, data) ==
  LET meta == data.metadata
      key == <<meta.vendor, meta.device_type, meta.model, meta.software_version>>
      found == key \in DOMAIN db.device_metadata
      device_metadata_id == IF found THEN db.device_metadata[key].id ELSE db.serial + 1
      patterns == data.patterns
  IN [id |-> device_metadata_id,
      db |->
        [serial |-> db.serial + 1,
         device_metadata |->
           [k \in DOMAIN db.device_metadata \cup {key} |->
              IF k \in DOMAIN db.device_metadata THEN db.device_metadata[k]
              ELSE [id |-> device_metadata_id, config_format |-> meta.config_format]],
         parsing_rules |->
           [rule_name \in DOMAIN db.parsing_rules \cup DOMAIN patterns |->
              IF rule_name \notin DOMAIN patterns THEN db.parsing_rules[rule_name]
              ELSE IF rule_name \in DOMAIN db.parsing_rules
              THEN [db.parsing_rules[rule_name] EXCEPT !.regex_pattern = patterns[rule_name]]
              ELSE [rule_category |-> _infer_category_from_rule_name(rule_name),
                    device_metadata_id |-> device_metadata_id,
                    regex_pattern |-> patterns[rule_name],
                    priority |-> 0, is_active |-> TRUE]]]]

\* load_parsing_rules: the active rules joined to a device_metadata row of
\* this vendor and device_type, ORDER BY priority, rule_name.  success_rate
\* is the default of its column, which no statement of the program sets.
load_parsing_rules_result(db, vendor, device_type) ==
  LET ids == {db.device_metadata[k].id :
                k \in {x \in DOMAIN db.device_metadata :
                         x[1] = vendor /\ x[2] = device_type}}
      names == {n \in DOMAIN db.parsing_rules :
                  /\ db.parsing_rules[n].device_metadata_id \in ids
                  /\ db.parsing_rules[n].is_active}
      collation == <<"description", "hostname", "interface", "ip_address", "vlan">>
      at(n) == CHOOSE i \in 1..Len(collation) : collation[i] = n
      before(a, b) ==
        \/ db.parsing_rules[a].priority < db.parsing_rules[b].priority
        \/ /\ db.parsing_rules[a].priority = db.parsing_rules[b].priority
           /\ at(a) < at(b)
      place(n) == 1 + Cardinality({a \in names : before(a, n)})
  IN [i \in 1..Cardinality(names) |->
        LET n == CHOOSE a \in names : place(a) = i
        IN [rule_name |-> n, category |-> db.parsing_rules[n].rule_category,
            pattern |-> db.parsing_rules[n].regex_pattern,
            priority |-> db.parsing_rules[n].priority]]

(***************************************************************************)
(* Configuration texts.  Word holds the words of the texts that are not    *)
(* literals of the program, and the file names the callers use; Line       *)
(* builds one "\n"-terminated line.                                        *)
(***************************************************************************)
Word ==
  [ SW_CORE_01 |-> <<"S","W","-","C","O","R","E","-","0","1">>,
    A1 |-> <<"A","1">>,
    R1 |-> <<"R","1">>,
    bang |-> <<"!">>,
    Gi0_1 |-> <<"G","i","g","a","b","i","t","E","t","h","e","r","n","e","t","0","/","1">>,
    Vlan10 |-> <<"V","l","a","n","1","0">>,
    Vlanif1 |-> <<"V","l","a","n","i","f","1">>,
    ge_0_0_0 |-> <<"g","e","-","0","/","0","/","0">>,
    Uplink |-> <<"U","p","l","i","n","k">>,
    to |-> <<"t","o">>,
    Core |-> <<"C","o","r","e">>,
    X |-> <<"X">>,
    ip_192_168_1_1 |-> <<"1","9","2",".","1","6","8",".","1",".","1">>,
    mask_24 |-> <<"2","5","5",".","2","5","5",".","2","5","5",".","0">>,
    ip_10_0_0_256 |-> <<"1","0",".","0",".","0",".","2","5","6">>,
    ip_10_0_0_1 |-> <<"1","0",".","0",".","0",".","1">>,
    ip_10_0_0 |-> <<"1","0",".","0",".","0">>,
    mask_8 |-> <<"2","5","5",".","0",".","0",".","0">>,
    ip_192_168_1_256 |-> <<"1","9","2",".","1","6","8",".","1",".","2","5","6">>,
    n10 |-> <<"1","0">>,
    name |-> <<"n","a","m","e">>,
    SALES |-> <<"S","A","L","E","S">>,
    v5_170 |-> <<"5",".","1","7","0">>,
    v15_2 |-> <<"1","5",".","2","(","4",")","E">>,
    Processor |-> <<"P","r","o","c","e","s","s","o","r">>,
    ID |-> <<"I","D">>,
    FOC1234 |-> <<"F","O","C","1","2","3","4">>,
    mac |-> <<"m","a","c">>,
    aabb_ccdd_eeff |-> <<"a","a","b","b",".","c","c","d","d",".","e","e","f","f">>,
    bad_host |-> <<"-","s","w">>,
    custom_yaml |-> <<"c","u","s","t","o","m",".","y","a","m","l">>,
    sample_cfg |-> <<"s","a","m","p","l","e",".","c","f","g">>,
    missing_cfg |-> <<"m","i","s","s","i","n","g",".","c","f","g">>,
    out_json |-> <<"o","u","t",".","j","s","o","n">>,
    out_csv |-> <<"o","u","t",".","c","s","v">> ]

Line(indent, toks) == [indent |-> indent, toks |-> toks]

\* main()'s sample_config; the literal opens with a newline.
sample_config ==
  << Line(FALSE, <<>>),
     Line(FALSE, <<Lit.hostname, Word.SW_CORE_01>>),
     Line(FALSE, <<Word.bang>>),
     Line(FALSE, <<Lit.interface, Word.Gi0_1>>),
     Line(TRUE, <<Lit.description, Word.Uplink, Word.to, Word.Core>>),
     Line(TRUE, <<Lit.ip, Lit.address, Word.ip_192_168_1_1, Word.mask_24>>),
     Line(TRUE, <<Lit.no, Lit.shutdown>>),
     Line(FALSE, <<Word.bang>>),
     Line(FALSE, <<Lit.vlan, Word.n10>>),
     Line(TRUE, <<Word.name, Word.SALES>>),
     Line(FALSE, <<Word.bang>>) >>

\* A text in Huawei's VRP syntax, with one interface block whose address is
\* out of range.  Its interface line is a fingerprint of Cisco as well.
vrp_config ==
  << Line(FALSE, <<Lit.sysname, Word.R1>>),
     Line(FALSE, <<Lit.version, Word.v5_170>>),
     Line(FALSE, <<Lit.interface, Word.Vlanif1>>),
     Line(TRUE, <<Lit.ip, Lit.address, Word.ip_10_0_0_256, Word.mask_8>>),
     Line(TRUE, <<Lit.shutdown>>) >>

\* A text no fingerprint matches: every line is indented, and none is "#".
bare_config ==
  << Line(TRUE, <<Word.Processor, Lit.board, Word.ID, Word.FOC1234>>),
     Line(TRUE, <<Lit.ip, Lit.address, Word.ip_10_0_0_1, Word.mask_8>>),
     Line(TRUE, <<Word.mac, Word.aabb_ccdd_eeff>>) >>

\* The stanzas the texts of the pipeline runs are made of.
Fragments ==
  << << Line(FALSE, <<Lit.hostname, Word.SW_CORE_01>>) >>,
     << Line(TRUE, <<Lit.hostname, Word.SW_CORE_01>>) >>,
     << Line(FALSE, <<Lit.hostname, Word.A1>>) >>,
     << Line(FALSE, <<Lit.sysname, Word.R1>>) >>,
     << Line(FALSE, <<Lit.interface, Word.Gi0_1>>),
        Line(TRUE, <<Lit.description, Word.Uplink, Word.to, Word.Core>>),
        Line(TRUE, <<Lit.ip, Lit.address, Word.ip_192_168_1_1, Word.mask_24>>),
        Line(TRUE, <<Lit.no, Lit.shutdown>>) >>,
     << Line(FALSE, <<Lit.interface, Word.Vlan10>>),
        Line(TRUE, <<Lit.shutdown>>) >>,
     << Line(TRUE, <<Lit.ip, Lit.address, Word.ip_10_0_0_256, Word.mask_8>>) >>,
     << Line(FALSE, <<Lit.vlan, Word.n10>>) >>,
     << Line(FALSE, <<Lit.hash>>) >>,
     << Line(FALSE, <<Lit.interfaces, Word.ge_0_0_0>>) >>,
     << Line(FALSE, <<Lit.version, Word.v15_2>>) >>,
     << Line(TRUE, <<Word.Processor, Lit.board, Word.ID, Word.FOC1234>>),
        Line(TRUE, <<Word.mac, Word.aabb_ccdd_eeff>>) >>,
     << Line(TRUE, <<Lit.description, Word.to, Lit.interface, Word.X>>) >>,
     << Line(FALSE, <<Word.bang>>) >>,
     << Line(TRUE, <<Lit.enable>>) >> >>

(***************************************************************************)
(* Bounds                                                                  *)
(***************************************************************************)
\* Calls a client makes on one session.
MaxCalls == 5

\* Stanzas in the text of a pipeline run.
MaxFragments == 2

\* Interface records in the data handed to validate_quality.
MaxInterfaces == 4

\* Dot-separated parts of a string handed to _validate_ip.
MaxOctets == 5

\* Failed samples in the list handed to optimize_rules.
MaxSamples == 2

\* Sessions that are inside save_rules at the same time.
MaxWriters == 2

\* Calls a host makes on two sessions.
MaxSessionCalls == 4

\* Pieces of a response handed to extract_json_from_response.
MaxPieces == 5

\* Calls a client makes on one DatabaseManager.
MaxStoreCalls == 4

(***************************************************************************)
(* The state: one NetworkConfigParser session, the rule library under      *)
(* rules_dir/parsers, the value the last call returned, and the caller:    *)
(* where it stands (pc), the argument it prepared (input), and what it has *)
(* done with the session: the calls it has made, the texts it has loaded,  *)
(* whether identify_device has returned, whether a call has returned      *)
(* False.  For the sessions that write rule files at the same time: what   *)
(* each holds inside save_rules (writers), the bytes of the files          *)
(* (rule_bytes), and the writers in the order in which they have finished. *)
(* For a host with two sessions: the attributes of the session that the    *)
(* next call is not made on (other).  For the DatabaseManager: the tables  *)
(* of its database (store).                                                *)
(***************************************************************************)
VARIABLES raw_config, metadata, device_info, interfaces, parsing_rules,
          rule_files, ret, pc, input, calls, loads, identified, failed,
          writers, rule_bytes, finished, other, store

vars == <<raw_config, metadata, device_info, interfaces, parsing_rules,
          rule_files, ret, pc, input, calls, loads, identified, failed,
          writers, rule_bytes, finished, other, store>>

DeviceMetadata ==
  [vendor |-> Lit.empty, device_type |-> Lit.empty, model |-> Lit.empty,
   software_version |-> Lit.empty, config_format |-> Lit.empty]

DeviceInfo ==
  [hostname |-> Lit.empty, management_ip |-> Lit.empty,
   mac_address |-> Lit.empty, serial_number |-> Lit.empty]

\* The attributes __init__ gives an instance.
NewAttributes ==
  [raw_config |-> Lit.empty, metadata |-> DeviceMetadata, device_info |-> DeviceInfo,
   interfaces |-> <<>>, parsing_rules |-> <<>>]

\* The attributes of another instance when the interfaces list is an
\* attribute of the class, `interfaces: List[InterfaceInfo] = []`, which
\* every instance appends to.
class_attribute_interfaces(session) == [session EXCEPT !.interfaces = interfaces']

\* The attributes of another instance after a call on this one: they are
\* objects made in its own __init__ and by its own calls, and none of them
\* is an attribute of the class or of the module.
instance_attributes(session) == session

\* NetworkConfigParser.__init__, with an empty rule library, and a
\* DatabaseManager connected to a database whose tables are empty.
NewSession ==
  /\ metadata = DeviceMetadata
  /\ device_info = DeviceInfo
  /\ interfaces = <<>>
  /\ raw_config = Lit.empty
  /\ parsing_rules = <<>>
  /\ rule_files = <<>>
  /\ ret = [op |-> "__init__"]
  /\ calls = 0
  /\ loads = 0
  /\ identified = FALSE
  /\ failed = FALSE
  /\ other = NewAttributes
  /\ rule_bytes = <<>>
  /\ finished = <<>>
  /\ store = [device_metadata |-> <<>>, parsing_rules |-> <<>>, serial |-> 0]

\* The dict extract_data returns, and validate_quality builds for data=None.
asdict_session == [metadata |-> metadata, device_info |-> device_info, interfaces |-> interfaces]

\* The texts a client loads, the config files on disk, the rule file it
\* names, the failed samples it hands to optimize_rules.
SessionTexts == {sample_config, bare_config}

config_files == [f \in {Word.sample_cfg} |-> vrp_config]

RuleFileArgs == {[is_none |-> TRUE], [is_none |-> FALSE, value |-> Word.custom_yaml]}

OptimizeSamples == {<<>>, <<vrp_config>>}

\* The texts of the pipeline runs: main()'s sample and every sequence of at
\* most MaxFragments stanzas.
RECURSIVE Concat(_)
Concat(texts) == IF texts = <<>> THEN <<>> ELSE Head(texts) \o Concat(Tail(texts))

MainTexts ==
  {sample_config} \cup
  UNION {{Concat([i \in 1..k |-> Fragments[s[i]]]) : s \in [1..k -> 1..Len(Fragments)]}
           : k \in 0..MaxFragments}

\* The data handed to validate_quality on its own.
InterfaceInputs ==
  { [name |-> Word.Gi0_1, ip_address |-> Word.ip_192_168_1_1, subnet_mask |-> Word.mask_24,
     status |-> Lit.up, description |-> Lit.empty],
    [name |-> Word.Vlan10, ip_address |-> Word.ip_10_0_0_256, subnet_mask |-> Word.mask_8,
     status |-> Lit.down, description |-> Lit.empty],
    [name |-> Lit.empty, ip_address |-> Lit.empty, subnet_mask |-> Lit.empty,
     status |-> Lit.empty, description |-> Lit.empty] }

ValidateInputs ==
  { [device_info |-> [DeviceInfo EXCEPT !.hostname = h, !.management_ip = ip],
     interfaces |-> ifs] :
      h \in {Lit.empty, Word.SW_CORE_01, Word.bad_host, Word.SW_CORE_01 \o <<"\n">>},
      ip \in {Lit.empty, Word.ip_192_168_1_1, Word.ip_10_0_0,
              Word.ip_192_168_1_1 \o <<"\n">>},
      ifs \in UNION {[1..n -> InterfaceInputs] : n \in 0..MaxInterfaces} }

\* The strings handed to _validate_ip on its own: the addresses of the
\* texts, and at most MaxOctets parts joined by dots, with or without a
\* newline at the end.
OctetTexts ==
  { <<>>, <<"0">>, <<"2","5","5">>, <<"2","5","6">>, <<"0","0","0","1">> }

RECURSIVE JoinDots(_)
JoinDots(parts) ==
  IF Len(parts) = 1 THEN parts[1]
  ELSE parts[1] \o <<".">> \o JoinDots(Tail(parts))

IpInputs ==
  {Word.ip_192_168_1_1, Word.ip_192_168_1_256, Word.ip_10_0_0} \cup
  UNION {{JoinDots(parts) \o end : parts \in [1..n -> OctetTexts],
                                   end \in {<<>>, <<"\n">>}}
           : n \in 1..MaxOctets}

\* The runs that optimize a generated rule set: the text the session is
\* created for, the sample of a first optimization, and the list of failed
\* samples that is then handed to optimize_rules twice.
hostname_samples ==
  << << Line(FALSE, <<Lit.host_name, Word.R1>>) >>,
     << Line(FALSE, <<Lit.sysname, Word.R1>>), Line(FALSE, <<Lit.host_name, Word.R1>>) >>,
     << Line(FALSE, <<Lit.hostname, Word.SW_CORE_01>>), Line(FALSE, <<Lit.sysname, Word.R1>>) >>,
     << Line(FALSE, <<Lit.interface, Word.Gi0_1>>) >> >>

SampleLists(max) ==
  UNION {{[i \in 1..n |-> hostname_samples[s[i]]] : s \in [1..n -> 1..Len(hostname_samples)]}
           : n \in 0..max}

OptimizeInputs ==
  [config_string : {sample_config, Fragments[4], bare_config},
   first : SampleLists(1),
   failed_samples : SampleLists(MaxSamples)]

\* A client calling the API in any order.
Init == NewSession /\ pc = "api" /\ input = <<>> /\ writers = <<>>

\* main(): a new session taken through the pipeline on one text.
MainInit == NewSession /\ pc = "main_load" /\ input \in MainTexts /\ writers = <<>>

\* validate_quality applied to data of the caller's.
ValidateInit == NewSession /\ pc = "validate" /\ input \in ValidateInputs /\ writers = <<>>

\* _validate_ip applied to a string of the caller's.
ValidateIpInit == NewSession /\ pc = "validate_ip" /\ input \in IpInputs /\ writers = <<>>

\* A session whose generated rules are optimized, and then optimized twice
\* on one list of failed samples.
OptimizeInit ==
  NewSession /\ pc = "optimize_load" /\ input \in OptimizeInputs /\ writers = <<>>

\* Sessions that have each identified a text and generated its rules are
\* inside save_rules, each with the rule_path and the rule_data it has
\* built, and none has opened its file yet.
WriterTexts == {sample_config, vrp_config, Fragments[4], bare_config}

WriterInputs ==
  { [pc |-> "open",
     rule_path |-> IF rule_file.is_none THEN default_rule_file(meta) ELSE rule_file.value,
     rule_data |-> rule_data(meta, generate_parsing_rules_result(meta))] :
       rule_file \in RuleFileArgs,
       meta \in {identify_device_result(DeviceMetadata, text) : text \in WriterTexts} }

\* The orders in which a client calls the six stages after a call that can
\* fail.
Stages ==
  {"identify_device", "extract_data", "validate_quality", "generate_parsing_rules",
   "parse_with_rules", "optimize_rules"}

StageOrders ==
  {order \in [1..Cardinality(Stages) -> Stages] :
     \A i, j \in DOMAIN order : order[i] = order[j] => i = j}

\* A new session on which a load_config, save_rules, load_rules or export
\* is called, and then every stage in some order.
AfterFailureInit ==
  NewSession /\ pc = "fail" /\ input \in StageOrders /\ writers = <<>>

\* A host with two new sessions, which it calls in any order.
TwoSessionsInit ==
  NewSession /\ pc = "sessions" /\ input = <<>> /\ writers = <<>>

\* The documents found in a rule library that sessions have not written
\* alone: one that save_rules wrote for a Huawei text, one whose metadata
\* has the key type for device_type, one without metadata, and a file that
\* is not YAML.
RuleDocuments ==
  LET meta == identify_device_result(DeviceMetadata, Fragments[4])
  IN { rule_data(meta, generate_parsing_rules_result(meta)),
       [metadata |-> [vendor |-> Lit.Huawei, type |-> Lit.Router],
        patterns |-> [hostname |-> adaptive_patterns[2]]],
       [patterns |-> [hostname |-> adaptive_patterns[2]]],
       [raises |-> "yaml.YAMLError"] }

\* A new session over a rule library that holds one such document, called
\* by a client in any order.
LibraryInit ==
  /\ metadata = DeviceMetadata
  /\ device_info = DeviceInfo
  /\ interfaces = <<>>
  /\ raw_config = Lit.empty
  /\ parsing_rules = <<>>
  /\ rule_files \in {[name \in {Word.custom_yaml} |-> document] : document \in RuleDocuments}
  /\ ret = [op |-> "__init__"]
  /\ calls = 0
  /\ loads = 0
  /\ identified = FALSE
  /\ failed = FALSE
  /\ other = NewAttributes
  /\ rule_bytes = <<>>
  /\ finished = <<>>
  /\ store = [device_metadata |-> <<>>, parsing_rules |-> <<>>, serial |-> 0]
  /\ pc = "api"
  /\ input = <<>>
  /\ writers = <<>>

\* The rule data saved to the database: the rules generated for main()'s
\* sample (Cisco, Switch), for a text with a sysname line (Huawei, no
\* device type) and for the VRP text (Cisco, Switch, version 5.170), and
\* the rules of the sample after an optimization on a host-name sample.
StoreRuleData ==
  LET cisco == identify_device_result(DeviceMetadata, sample_config)
      huawei == identify_device_result(DeviceMetadata, Fragments[4])
      vrp == identify_device_result(DeviceMetadata, vrp_config)
  IN { rule_data(cisco, generate_parsing_rules_result(cisco)),
       rule_data(huawei, generate_parsing_rules_result(huawei)),
       rule_data(vrp, generate_parsing_rules_result(vrp)),
       rule_data(cisco, optimize_rules_result(generate_parsing_rules_result(cisco),
                                              <<hostname_samples[1]>>)) }

\* A client of a DatabaseManager that is connected to an empty database.
StoreInit == NewSession /\ pc = "store" /\ input = <<>> /\ writers = <<>>

\* extract_json_from_response applied to a response.
Responses == UNION {[1..n -> ResponsePieces] : n \in 0..MaxPieces}

ExtractJsonInit ==
  NewSession /\ pc = "extract_json" /\ input \in Responses /\ writers = <<>>

PersistInit ==
  /\ NewSession /\ pc = "save_rules" /\ input = <<>>
  /\ writers \in [1..MaxWriters -> WriterInputs]

\* The call is the caller's next one: any call of an API client that has
\* calls left, the call at one of the labels of a script.
Called(labels) ==
  \/ pc = "api" /\ calls < MaxCalls
  \/ pc = "sessions" /\ calls < MaxSessionCalls
  \/ pc \in labels

\* The call returns what ret' holds, and the caller moves on: a script to
\* its next label, the client that goes through the stages to the next
\* stage of its order.
Return(next) ==
  /\ pc' = CASE pc \in {"api", "sessions"} -> pc
            [] pc \in Stages \cup {"fail"} ->
                 IF calls = Len(input) THEN "done" ELSE input[calls + 1]
            [] OTHER -> next
  /\ calls' = calls + 1
  /\ loads' = IF \/ ret'.op = "load_config_string"
                 \/ (ret'.op = "load_config" /\ ret'.value)
              THEN loads + 1 ELSE loads
  /\ identified' = (identified \/ ret'.op = "identify_device")
  /\ failed' = (failed \/ (/\ ret'.op \in {"load_config", "save_rules", "load_rules",
                                           "export_to_json", "export_to_csv"}
                           /\ ~ret'.value))
  /\ other' = instance_attributes(other)
  /\ UNCHANGED <<input, writers, rule_bytes, finished, store>>

\* load_rules once the file is known to exist.  document is what
\* yaml.safe_load makes of the file, or the error it raises.  The patterns
\* are assigned first; DeviceMetadata(**metadata) then raises TypeError for
\* a key that is not a field of the dataclass, and False is returned.
load_rules_result(document, rules, meta) ==
  IF "raises" \in DOMAIN document
  THEN [value |-> FALSE, parsing_rules |-> rules, metadata |-> meta]
  ELSE LET patterns == IF "patterns" \in DOMAIN document THEN document.patterns ELSE <<>>
           given == IF "metadata" \in DOMAIN document THEN document.metadata ELSE <<>>
       IN IF DOMAIN given \subseteq DOMAIN DeviceMetadata
          THEN [value |-> TRUE, parsing_rules |-> patterns,
                metadata |-> [k \in DOMAIN DeviceMetadata |->
                                IF k \in DOMAIN given THEN given[k] ELSE DeviceMetadata[k]]]
          ELSE [value |-> FALSE, parsing_rules |-> patterns, metadata |-> meta]

\* The rule library after file name is written.  A file is held as the
\* document yaml.safe_load reads from it: yaml.dump quotes a str that would
\* read back as another type, so a dict of str values is read back as written.
write_rule_file(name, doc) ==
  [n \in DOMAIN rule_files \cup {name} |-> IF n = name THEN doc ELSE rule_files[n]]

\* `if not self.parsing_rules: self.generate_parsing_rules()`
rules_or_generated ==
  IF DOMAIN parsing_rules = {} THEN generate_parsing_rules_result(metadata)
  ELSE parsing_rules

(***************************************************************************)
(* The operations of NetworkConfigParser                                   *)
(***************************************************************************)
\* load_config: open() raises for a missing file, and False is returned.
load_config ==
  /\ Called({"fail"})
  /\ \E config_file \in {Word.sample_cfg, Word.missing_cfg} :
       IF config_file \in DOMAIN config_files
       THEN /\ raw_config' = config_files[config_file]
            /\ ret' = [op |-> "load_config", value |-> TRUE]
       ELSE /\ UNCHANGED raw_config
            /\ ret' = [op |-> "load_config", value |-> FALSE]
  /\ UNCHANGED <<metadata, device_info, interfaces, parsing_rules, rule_files>>
  /\ Return("api")

load_config_string ==
  /\ Called({"main_load", "optimize_load"})
  /\ \E config_string \in (CASE pc \in {"api", "sessions"} -> SessionTexts
                             [] pc = "main_load" -> {input}
                             [] pc = "optimize_load" -> {input.config_string}) :
       raw_config' = config_string
  /\ ret' = [op |-> "load_config_string"]
  /\ UNCHANGED <<metadata, device_info, interfaces, parsing_rules, rule_files>>
  /\ Return(IF pc = "optimize_load" THEN "optimize_identify" ELSE "main_identify")

identify_device ==
  /\ Called({"main_identify", "optimize_identify", "identify_device"})
  /\ metadata' = identify_device_result(metadata, raw_config)
  /\ ret' = [op |-> "identify_device", value |-> metadata']
  /\ UNCHANGED <<raw_config, device_info, interfaces, parsing_rules, rule_files>>
  /\ Return(IF pc = "optimize_identify" THEN "optimize_generate" ELSE "main_extract")

\* An extract_data that raises an error when the session holds no text:
\* the call ends without a value, and the session is as it was.
extract_data_needs_text ==
  /\ Called({"main_extract", "extract_data"})
  /\ IF raw_config = Lit.empty
     THEN /\ ret' = [op |-> "extract_data", raised |-> "ValueError"]
          /\ UNCHANGED <<device_info, interfaces>>
     ELSE /\ device_info' = _extract_device_info(metadata, device_info, Tokens(raw_config))
          /\ interfaces' = _extract_interfaces(metadata, interfaces, Tokens(raw_config))
          /\ ret' = [op |-> "extract_data",
                     value |-> [metadata |-> metadata, device_info |-> device_info',
                                interfaces |-> interfaces']]
  /\ UNCHANGED <<raw_config, metadata, parsing_rules, rule_files>>
  /\ Return("main_validate")

extract_data ==
  /\ Called({"main_extract", "extract_data"})
  /\ device_info' = _extract_device_info(metadata, device_info, Tokens(raw_config))
  /\ interfaces' = _extract_interfaces(metadata, interfaces, Tokens(raw_config))
  /\ ret' = [op |-> "extract_data",
             value |-> [metadata |-> metadata, device_info |-> device_info',
                        interfaces |-> interfaces']]
  /\ UNCHANGED <<raw_config, metadata, parsing_rules, rule_files>>
  /\ Return("main_validate")

\* A validate_quality whose warnings list is an attribute of the session
\* that is never emptied: what it returns depends on the calls before.
validate_quality_warnings_kept ==
  /\ Called({"main_validate", "validate"})
  /\ LET data == CASE pc = "api" -> asdict_session
                   [] pc = "main_validate" -> ret.value
                   [] pc = "validate" -> input
         result == validate_quality_result(data)
         kept == IF ret.op = "validate_quality" THEN ret.value.warnings ELSE <<>>
         warnings == kept \o result.warnings
     IN ret' = [op |-> "validate_quality",
                value |-> [result EXCEPT !.warnings = warnings,
                                         !.is_valid = is_valid(result.quality_score, warnings)]]
  /\ UNCHANGED <<raw_config, metadata, device_info, interfaces, parsing_rules, rule_files>>
  /\ Return(IF pc = "validate" THEN "done" ELSE "main_generate")

\* An API client calls validate_quality() and the session's data is taken;
\* main() hands over what extract_data returned.
validate_quality ==
  /\ Called({"main_validate", "validate", "validate_quality"})
  /\ LET data == CASE pc \in {"api", "sessions", "validate_quality"} -> asdict_session
                   [] pc = "main_validate" -> ret.value
                   [] pc = "validate" -> input
     IN ret' = [op |-> "validate_quality", value |-> validate_quality_result(data)]
  /\ UNCHANGED <<raw_config, metadata, device_info, interfaces, parsing_rules, rule_files>>
  /\ Return(IF pc = "validate" THEN "done" ELSE "main_generate")

\* A call of _validate_ip by itself.
validate_ip ==
  /\ pc = "validate_ip"
  /\ ret' = [op |-> "_validate_ip", value |-> _validate_ip(input)]
  /\ UNCHANGED <<raw_config, metadata, device_info, interfaces, parsing_rules, rule_files>>
  /\ Return("done")

generate_parsing_rules ==
  /\ Called({"main_generate", "optimize_generate", "generate_parsing_rules"})
  /\ parsing_rules' = generate_parsing_rules_result(metadata)
  /\ ret' = [op |-> "generate_parsing_rules", value |-> parsing_rules']
  /\ UNCHANGED <<raw_config, metadata, device_info, interfaces, rule_files>>
  /\ Return(IF pc = "optimize_generate" THEN "optimize_first" ELSE "main_save")

\* save_rules: the rules are generated before the try block; an error in
\* it (mkdir, open, dump) leaves the library as it was and returns False.
save_rules ==
  /\ Called({"main_save", "fail"})
  /\ \E rule_file \in (IF pc = "main_save" THEN {[is_none |-> TRUE]} ELSE RuleFileArgs),
        io_ok \in BOOLEAN :
       LET name == IF rule_file.is_none THEN default_rule_file(metadata)
                   ELSE rule_file.value
       IN /\ rule_files' = IF io_ok
                           THEN write_rule_file(name, rule_data(metadata, rules_or_generated))
                           ELSE rule_files
          /\ ret' = [op |-> "save_rules", value |-> io_ok]
  /\ parsing_rules' = rules_or_generated
  /\ UNCHANGED <<raw_config, metadata, device_info, interfaces>>
  /\ Return("main_parse")

\* A load_rules without the `if not rule_path.exists()` test, which reads a
\* missing file as an empty document.
load_rules_missing_file_is_empty ==
  /\ Called({})
  /\ \E rule_file \in {Word.custom_yaml} \cup DOMAIN rule_files :
       IF rule_file \notin DOMAIN rule_files
       THEN /\ parsing_rules' = <<>>
            /\ metadata' = DeviceMetadata
            /\ ret' = [op |-> "load_rules", value |-> TRUE, rule_file |-> rule_file]
       ELSE LET loaded == load_rules_result(rule_files[rule_file], parsing_rules, metadata)
            IN /\ parsing_rules' = loaded.parsing_rules
               /\ metadata' = loaded.metadata
               /\ ret' = [op |-> "load_rules", value |-> loaded.value,
                          rule_file |-> rule_file]
  /\ UNCHANGED <<raw_config, device_info, interfaces, rule_files>>
  /\ Return("api")

\* load_rules: False for a missing file; else the patterns and then the
\* metadata of the document replace the session's, unless an error is
\* raised on the way.  The name asked for is
\* kept with the result.
load_rules ==
  /\ Called({"fail"})
  /\ \E rule_file \in {Word.custom_yaml} \cup DOMAIN rule_files :
       IF rule_file \notin DOMAIN rule_files
       THEN /\ UNCHANGED <<parsing_rules, metadata>>
            /\ ret' = [op |-> "load_rules", value |-> FALSE, rule_file |-> rule_file]
       ELSE LET loaded == load_rules_result(rule_files[rule_file], parsing_rules, metadata)
            IN /\ parsing_rules' = loaded.parsing_rules
               /\ metadata' = loaded.metadata
               /\ ret' = [op |-> "load_rules", value |-> loaded.value,
                          rule_file |-> rule_file]
  /\ UNCHANGED <<raw_config, device_info, interfaces, rule_files>>
  /\ Return("api")

\* A parse_with_rules that enters a field into raw_data only when its
\* pattern has matched: `if values: result['raw_data'][field_name] = values`.
parse_with_rules_matched_fields_only ==
  /\ Called({"main_parse"})
  /\ parsing_rules' = rules_or_generated
  /\ ret' = [op |-> "parse_with_rules",
             value |-> [metadata |-> metadata,
                        device_info |-> device_info,
                        interfaces |-> interfaces,
                        raw_data |-> [field_name \in
                                        {k \in DOMAIN parsing_rules' :
                                           re_search_rule(parsing_rules'[k], Tokens(raw_config))} |->
                                        re_finditer_rule(parsing_rules'[field_name],
                                                         Tokens(raw_config), 1)]]]
  /\ UNCHANGED <<raw_config, metadata, device_info, interfaces, rule_files>>
  /\ Return("done")

parse_with_rules ==
  /\ Called({"main_parse", "parse_with_rules"})
  /\ parsing_rules' = rules_or_generated
  /\ ret' = [op |-> "parse_with_rules",
             value |-> [metadata |-> metadata,
                        device_info |-> device_info,
                        interfaces |-> interfaces,
                        raw_data |-> [field_name \in DOMAIN parsing_rules' |->
                                        re_finditer_rule(parsing_rules'[field_name],
                                                         Tokens(raw_config), 1)]]]
  /\ UNCHANGED <<raw_config, metadata, device_info, interfaces, rule_files>>
  /\ Return("done")

optimize_rules ==
  /\ Called({"optimize_first", "optimize", "optimize_again", "optimize_rules"})
  /\ \E failed_samples \in (CASE pc \in {"api", "sessions", "optimize_rules"} ->
                                   OptimizeSamples
                              [] pc = "optimize_first" -> {input.first}
                              [] pc \in {"optimize", "optimize_again"} ->
                                   {input.failed_samples}) :
       parsing_rules' = optimize_rules_result(parsing_rules, failed_samples)
  /\ ret' = [op |-> "optimize_rules", value |-> parsing_rules']
  /\ UNCHANGED <<raw_config, metadata, device_info, interfaces, rule_files>>
  /\ Return(CASE pc = "optimize_first" -> "optimize"
               [] pc = "optimize" -> "optimize_again"
               [] OTHER -> "done")

\* The exports write a file outside the rule library; what is written is
\* kept with the result.  An error in open or dump returns False.
export_to_json ==
  /\ Called({"fail"})
  /\ \E io_ok \in BOOLEAN :
       ret' = IF io_ok
              THEN [op |-> "export_to_json", value |-> TRUE, output_file |-> Word.out_json,
                    data |-> [metadata |-> metadata, device_info |-> device_info,
                              interfaces |-> interfaces,
                              exported_at |-> "datetime.now().isoformat()"]]
              ELSE [op |-> "export_to_json", value |-> FALSE]
  /\ UNCHANGED <<raw_config, metadata, device_info, interfaces, parsing_rules, rule_files>>
  /\ Return("api")

export_to_csv ==
  /\ Called({"fail"})
  /\ \E io_ok \in BOOLEAN :
       ret' = IF io_ok
              THEN [op |-> "export_to_csv", value |-> TRUE, output_file |-> Word.out_csv,
                    rows |-> << << "hostname", "management_ip", "mac_address",
                                   "serial_number", "device_type", "model", "vendor" >>,
                                << device_info.hostname, device_info.management_ip,
                                   device_info.mac_address, device_info.serial_number,
                                   metadata.device_type, metadata.model, metadata.vendor >> >>]
              ELSE [op |-> "export_to_csv", value |-> FALSE]
  /\ UNCHANGED <<raw_config, metadata, device_info, interfaces, parsing_rules, rule_files>>
  /\ Return("api")

\* save_rules of writer w, `open(rule_path, 'w')`: the file is created,
\* or cut to no bytes.
open_rule_file(w) ==
  /\ writers[w].pc = "open"
  /\ rule_bytes' = [n \in DOMAIN rule_bytes \cup {writers[w].rule_path} |->
                      IF n = writers[w].rule_path THEN <<>> ELSE rule_bytes[n]]
  /\ writers' = [writers EXCEPT ![w].pc = "dump"]
  /\ UNCHANGED <<raw_config, metadata, device_info, interfaces, parsing_rules,
                 rule_files, ret, pc, input, calls, loads, identified, failed,
                 finished, other, store>>

\* save_rules of writer w, yaml.dump and the end of the with block: the
\* document, which is shorter than the buffer of the file object, is
\* written in one piece when the file is closed, and True is returned.
dump_rule_data(w) ==
  /\ writers[w].pc = "dump"
  /\ rule_bytes' = [rule_bytes EXCEPT ![writers[w].rule_path] =
                                        file_write(@, writers[w].rule_data)]
  /\ writers' = [writers EXCEPT ![w].pc = "done"]
  /\ finished' = Append(finished, w)
  /\ UNCHANGED <<raw_config, metadata, device_info, interfaces, parsing_rules,
                 rule_files, ret, pc, input, calls, loads, identified, failed, other,
                 store>>

extract_json_from_response ==
  /\ pc = "extract_json"
  /\ ret' = [op |-> "extract_json_from_response"] @@ extract_json_result(input)
  /\ UNCHANGED <<raw_config, metadata, device_info, interfaces, parsing_rules, rule_files>>
  /\ Return("done")

(***************************************************************************)
(* The operations of DatabaseManager                                       *)
(***************************************************************************)
save_parsing_rule ==
  /\ pc = "store" /\ calls < MaxStoreCalls
  /\ \E data \in StoreRuleData :
       LET saved == save_parsing_rule_result(store, data)
       IN /\ store' = saved.db
          /\ ret' = [op |-> "save_parsing_rule", value |-> saved.id, rule_data |-> data]
  /\ calls' = calls + 1
  /\ UNCHANGED <<raw_config, metadata, device_info, interfaces, parsing_rules,
                 rule_files, pc, input, loads, identified, failed, writers,
                 rule_bytes, finished, other>>

load_parsing_rules ==
  /\ pc = "store" /\ calls < MaxStoreCalls
  /\ \E data \in StoreRuleData :
       ret' = [op |-> "load_parsing_rules",
               value |-> load_parsing_rules_result(store, data.metadata.vendor,
                                                   data.metadata.device_type)]
  /\ calls' = calls + 1
  /\ UNCHANGED <<raw_config, metadata, device_info, interfaces, parsing_rules,
                 rule_files, pc, input, loads, identified, failed, writers,
                 rule_bytes, finished, other, store>>

\* The host turns to its other session: the next calls are made on it.
switch_session ==
  /\ pc = "sessions"
  /\ raw_config' = other.raw_config
  /\ metadata' = other.metadata
  /\ device_info' = other.device_info
  /\ interfaces' = other.interfaces
  /\ parsing_rules' = other.parsing_rules
  /\ other' = [raw_config |-> raw_config, metadata |-> metadata,
               device_info |-> device_info, interfaces |-> interfaces,
               parsing_rules |-> parsing_rules]
  /\ UNCHANGED <<rule_files, ret, pc, input, calls, loads, identified, failed,
                 writers, rule_bytes, finished, store>>

(***************************************************************************)
(* The specifications                                                      *)
(***************************************************************************)
Next ==
  \/ load_config
  \/ load_config_string
  \/ identify_device
  \/ extract_data
  \/ validate_quality
  \/ generate_parsing_rules
  \/ save_rules
  \/ load_rules
  \/ parse_with_rules
  \/ optimize_rules
  \/ export_to_json
  \/ export_to_csv

Spec == Init /\ [][Next]_vars

MainNext ==
  \/ load_config_string
  \/ identify_device
  \/ extract_data
  \/ validate_quality
  \/ generate_parsing_rules
  \/ save_rules
  \/ parse_with_rules

SpecMain == MainInit /\ [][MainNext]_vars

SpecValidate == ValidateInit /\ [][validate_quality]_vars

OptimizeNext ==
  \/ load_config_string
  \/ identify_device
  \/ generate_parsing_rules
  \/ optimize_rules

SpecOptimize == OptimizeInit /\ [][OptimizeNext]_vars

PersistNext ==
  \/ \E w \in DOMAIN writers : open_rule_file(w)
  \/ \E w \in DOMAIN writers : dump_rule_data(w)

SpecPersist == PersistInit /\ [][PersistNext]_vars

AfterFailureNext ==
  \/ load_config
  \/ save_rules
  \/ load_rules
  \/ export_to_json
  \/ export_to_csv
  \/ identify_device
  \/ extract_data
  \/ validate_quality
  \/ generate_parsing_rules
  \/ parse_with_rules
  \/ optimize_rules

SpecAfterFailure == AfterFailureInit /\ [][AfterFailureNext]_vars

TwoSessionsNext ==
  \/ switch_session
  \/ load_config_string
  \/ identify_device
  \/ extract_data
  \/ validate_quality
  \/ generate_parsing_rules
  \/ parse_with_rules
  \/ optimize_rules

SpecTwoSessions == TwoSessionsInit /\ [][TwoSessionsNext]_vars

LibraryNext ==
  \/ load_config_string
  \/ identify_device
  \/ generate_parsing_rules
  \/ load_rules

SpecLibrary == LibraryInit /\ [][LibraryNext]_vars

StoreNext ==
  \/ save_parsing_rule
  \/ load_parsing_rules

SpecStore == StoreInit /\ [][StoreNext]_vars

SpecExtractJson == ExtractJsonInit /\ [][extract_json_from_response]_vars

SpecValidateIp == ValidateIpInit /\ [][validate_ip]_vars

(***************************************************************************)
(* Properties of the identifier and the extractor                          *)
(***************************************************************************)
\* The step is a call of one of the operations ops: every call is counted,
\* and ret' holds what it returned.
IsCallOf(ops) == calls' = calls + 1 /\ ret'.op \in ops

\* C1: identify_device returns vendor V exactly when a fingerprint of V
\* matches the text and no fingerprint of a vendor declared before V does;
\* config_format is then the label of the first matching fingerprint of V.
C1_VendorOfFirstMatch ==
  [][IsCallOf({"identify_device"}) =>
       LET hits == FingerprintHits(Tokens(raw_config))
           matches(v) == \E h \in hits : h[1] = v
       IN \A v \in 1..Len(vendor_patterns) :
            LET first == matches(v) /\ \A u \in 1..(v - 1) : ~matches(u)
            IN /\ (ret'.value.vendor = vendor_patterns[v].vendor) <=> first
               /\ first => ret'.value.config_format =
                             vendor_patterns[v].patterns[
                               Least({h[2] : h \in {x \in hits : x[1] = v}})][2]]_vars

\* C2: on a newly created session, identify_device on a text that no
\* fingerprint matches returns metadata whose five fields are all empty.
C2_NoMatchReturnsEmptyMetadata ==
  (ret.op = "identify_device" /\ FingerprintHits(Tokens(raw_config)) = {})
    => (ret.value = DeviceMetadata /\ metadata = DeviceMetadata)

\* A text of two lines or more that no fingerprint matches has been identified.
C2_Witness ==
  /\ ret.op = "identify_device"
  /\ FingerprintHits(Tokens(raw_config)) = {}
  /\ Len(raw_config) >= 2

\* C3, as stated: with an empty vendor, extract_data leaves hostname,
\* management_ip, mac_address and serial_number empty and the interface
\* sequence empty.
C3_EmptyVendorExtractsNothing ==
  (ret.op = "extract_data" /\ metadata.vendor = Lit.empty)
    => (device_info = DeviceInfo /\ interfaces = <<>>)

\* C3, amended: with an empty vendor, extract_data leaves the hostname and
\* the interface sequence as they were, while management_ip, mac_address
\* and serial_number are still read from the text.
C3_EmptyVendorKeepsHostnameAndInterfaces ==
  [][(IsCallOf({"extract_data"}) /\ metadata.vendor = Lit.empty) =>
       /\ device_info'.hostname = device_info.hostname
       /\ interfaces' = interfaces
       /\ raw_config = sample_config =>
            device_info'.management_ip = Word.ip_192_168_1_1
       /\ raw_config = bare_config =>
            /\ device_info'.management_ip = Word.ip_10_0_0_1
            /\ device_info'.mac_address = Word.aabb_ccdd_eeff
            /\ device_info'.serial_number = Word.FOC1234]_vars

\* extract_data has run with an empty vendor on main()'s sample, which has a
\* hostname line and an interface block.
C3_Witness ==
  /\ ret.op = "extract_data"
  /\ metadata.vendor = Lit.empty
  /\ raw_config = sample_config
  /\ device_info.hostname = Lit.empty
  /\ interfaces = <<>>
  /\ device_info.management_ip = Word.ip_192_168_1_1

\* C4: once identify_device has returned, no call of extract_data,
\* validate_quality, generate_parsing_rules, save_rules, load_rules,
\* parse_with_rules, optimize_rules or an export changes the metadata.
C4_MetadataSetOnce ==
  [][(/\ identified
      /\ IsCallOf({"extract_data", "validate_quality", "generate_parsing_rules",
                   "save_rules", "load_rules", "parse_with_rules", "optimize_rules",
                   "export_to_json", "export_to_csv"}))
       => metadata' = metadata]_vars

\* The token sequence `hostname SW-CORE-01` occurs in the text.
ContainsHostnameSample(text) ==
  \E n \in 1..Len(text) : \E k \in 1..(Len(text[n].toks) - 1) :
    text[n].toks[k] = Lit.hostname /\ text[n].toks[k + 1] = Word.SW_CORE_01

\* A line of the text begins `hostname SW-CORE-01`, and no token before it
\* ends in "hostname".
LeadsWithHostnameSample(text) ==
  \E n \in 1..Len(text) :
    /\ ~text[n].indent
    /\ Len(text[n].toks) >= 2
    /\ text[n].toks[1] = Lit.hostname
    /\ text[n].toks[2] = Word.SW_CORE_01
    /\ \A m \in 1..(n - 1) : \A k \in 1..Len(text[m].toks) :
         ~HasSuffix(text[m].toks[k], Lit.hostname)

\* C5, as stated: for a text in which identify_device recognizes a vendor
\* and which contains `hostname SW-CORE-01`, the extract_data that follows
\* sets the hostname to SW-CORE-01.
C5_RecognizedTextYieldsHostname ==
  (ret.op = "extract_data" /\ metadata.vendor # Lit.empty
     /\ ContainsHostnameSample(raw_config))
    => device_info.hostname = Word.SW_CORE_01

\* C5, amended: for a text with a line beginning `hostname SW-CORE-01` and
\* no token ending in "hostname" before it, identify_device returns vendor
\* Cisco and the extract_data that follows sets the hostname to SW-CORE-01.
C5_LeadingHostnameLineYieldsHostname ==
  LeadsWithHostnameSample(raw_config) =>
    /\ ret.op = "identify_device" => ret.value.vendor = Lit.Cisco
    /\ ret.op = "extract_data" =>
         metadata.vendor = Lit.Cisco /\ device_info.hostname = Word.SW_CORE_01

\* The data of a text have been extracted that begins with a sysname line,
\* a fingerprint of Huawei, and goes on with `hostname SW-CORE-01`.
C5_Witness ==
  /\ ret.op = "extract_data"
  /\ LeadsWithHostnameSample(raw_config)
  /\ raw_config[1].toks[1] = Lit.sysname
  /\ device_info.hostname = Word.SW_CORE_01

\* C6: identify_device then extract_data on main()'s sample yield vendor
\* Cisco, hostname SW-CORE-01 and the one interface record of the sample.
C6_EndToEndSample ==
  (raw_config = sample_config /\ ret.op = "extract_data") =>
    /\ ret.value.metadata.vendor = Lit.Cisco
    /\ ret.value.device_info.hostname = Word.SW_CORE_01
    /\ ret.value.interfaces =
         << [name |-> Word.Gi0_1,
             ip_address |-> Word.ip_192_168_1_1,
             subnet_mask |-> Word.mask_24,
             description |-> Word.Uplink \o <<" ">> \o Word.to \o <<" ">> \o Word.Core,
             status |-> Lit.up] >>

\* main() has extracted the data of its sample.
C6_Witness ==
  /\ pc = "main_validate"
  /\ input = sample_config
  /\ ret.op = "extract_data"
  /\ Len(interfaces) = 1

\* C7: after extract_data calls on a session that has held one text, the
\* interface sequence is the records of the blocks discovered in the text,
\* one for each, in discovery order.
C7_OneRecordPerBlock ==
  (loads = 1 /\ ret.op = "extract_data")
    => interfaces = _extract_interfaces(metadata, <<>>, Tokens(raw_config))

\* C8: when the text has no interface block, or the vendor has no block
\* pattern, extract_data returns an empty interface sequence, and
\* validate_quality counts two fields in total on what it returned.
C8_NoBlocksNoRecords ==
  (/\ ret.op = "extract_data"
   /\ \/ findall_interfaces(Tokens(raw_config), 1) = <<>>
      \/ metadata.vendor \notin interface_patterns)
    => /\ ret.value.interfaces = <<>>
       /\ validate_quality_result(ret.value).total_fields = Len(required_fields.device_info)

(***************************************************************************)
(* Properties of the validator                                             *)
(***************************************************************************)
\* C9: the score validate_quality returns lies between 0 and 1, the filled
\* counter does not exceed the total counter, and the score is 0.0 for a
\* total of 0.
C9_ScoreBetweenZeroAndOne ==
  /\ quality_score(0, 0).num = 0
  /\ ret.op = "validate_quality" =>
       LET score == ret.value.quality_score
       IN /\ 0 <= score.num /\ score.num <= score.den /\ score.den > 0
          /\ ret.value.filled_fields <= ret.value.total_fields
          /\ ret.value.total_fields = 0 => score.num = 0

\* validate_quality has returned a score strictly between 0 and 1 for data
\* with interfaces that declare an ip_address.
C9_Witness ==
  /\ ret.op = "validate_quality"
  /\ 0 < ret.value.quality_score.num
  /\ ret.value.quality_score.num < ret.value.quality_score.den
  /\ ret.value.total_fields > Len(required_fields.device_info) + Len(input.interfaces)

\* C10: is_valid is true exactly when the score is at least 0.9 and there
\* is no warning; a score of 0.9 or more with a warning gives false.
C10_ValidIffScoreAndNoWarning ==
  ret.op = "validate_quality" =>
    LET score == ret.value.quality_score
        reached == score.num * ThresholdDen >= ThresholdNum * score.den
    IN /\ ret.value.is_valid <=> (reached /\ ret.value.warnings = <<>>)
       /\ (reached /\ ret.value.warnings # <<>>) => ~ret.value.is_valid

\* validate_quality has returned a score of 0.9 or more with a warning.
C10_Witness ==
  /\ ret.op = "validate_quality"
  /\ ret.value.quality_score.num * ThresholdDen
       >= ThresholdNum * ret.value.quality_score.den
  /\ ret.value.warnings # <<>>
  /\ ~ret.value.is_valid

RECURSIVE DotSeparated(_)
DotSeparated(ip) ==
  IF \A k \in 1..Len(ip) : ip[k] # "." THEN <<ip>>
  ELSE LET dot == Least({k \in 1..Len(ip) : ip[k] = "."})
       IN <<SubSeq(ip, 1, dot - 1)>> \o DotSeparated(SubSeq(ip, dot + 1, Len(ip)))

\* ip is four decimal integers of 0..255 separated by dots.
FourOctetsInRange(ip) ==
  LET parts == DotSeparated(ip)
  IN /\ Len(parts) = 4
     /\ \A i \in 1..4 :
          /\ parts[i] # <<>>
          /\ \A k \in 1..Len(parts[i]) : parts[i][k] \in Digits
          /\ DecimalValue(parts[i], 1, Len(parts[i])) \in 0..OctetMax

\* C12: _validate_ip accepts a string exactly when it is four decimal
\* integers of 0..255 separated by dots; it accepts 192.168.1.1 and rejects
\* 192.168.1.256 and 10.0.0.
C12_AcceptsExactlyFourOctets ==
  /\ _validate_ip(Word.ip_192_168_1_1)
  /\ ~_validate_ip(Word.ip_192_168_1_256)
  /\ ~_validate_ip(Word.ip_10_0_0)
  /\ ret.op = "_validate_ip" => (ret.value <=> FourOctetsInRange(input))

(***************************************************************************)
(* Properties of the ruleset manager                                       *)
(***************************************************************************)
\* C13: the fields of the raw_data parse_with_rules returns are the fields
\* of the session's rule set, and a field whose pattern matches nowhere in
\* the text is present with an empty sequence.
C13_RawDataHasEveryRuleField ==
  [][IsCallOf({"parse_with_rules"}) =>
       /\ DOMAIN ret'.value.raw_data = DOMAIN parsing_rules'
       /\ \A field_name \in DOMAIN parsing_rules' :
            ~re_search_rule(parsing_rules'[field_name], Tokens(raw_config))
              => ret'.value.raw_data[field_name] = <<>>]_vars

\* parse_with_rules has returned raw_data in which one field has matches
\* and another has none.
C13_Witness ==
  /\ ret.op = "parse_with_rules"
  /\ \E field_name \in DOMAIN ret.value.raw_data : ret.value.raw_data[field_name] = <<>>
  /\ \E field_name \in DOMAIN ret.value.raw_data : ret.value.raw_data[field_name] # <<>>

\* C14: a second optimize_rules call with the list of failed samples of the
\* call before it leaves every pattern as that call left it.
C14_OptimizeTwiceChangesNothing ==
  [][(pc = "optimize_again" /\ IsCallOf({"optimize_rules"}))
       => parsing_rules' = parsing_rules]_vars

\* C15: for a vendor other than Cisco and Huawei, the empty vendor
\* included, generate_parsing_rules returns an empty mapping, which is then
\* the session's rule set, and the call returns without an error.
C15_NoTemplateNoRules ==
  /\ \A vendor \in {Lit.H3C, Lit.Juniper, Lit.Ruijie, Lit.empty} :
       DOMAIN generate_parsing_rules_result([DeviceMetadata EXCEPT !.vendor = vendor]) = {}
  /\ (ret.op = "generate_parsing_rules" /\ metadata.vendor \notin {Lit.Cisco, Lit.Huawei})
       => (DOMAIN ret.value = {} /\ DOMAIN parsing_rules = {})

\* generate_parsing_rules has returned for a session identified as Juniper.
C15_Witness ==
  /\ ret.op = "generate_parsing_rules"
  /\ metadata.vendor = Lit.Juniper
  /\ DOMAIN ret.value = {}

\* C16: in every session state, load_rules of a name under which no
\* document is stored returns False, and no error is raised.
C16_LoadOfMissingDocumentIsFalse ==
  [][(IsCallOf({"load_rules"}) /\ ret'.rule_file \notin DOMAIN rule_files)
       => ret'.value = FALSE]_vars

\* load_rules has returned False for a name that is not in the library,
\* while the library holds a document under another name.
C16_Witness ==
  /\ ret.op = "load_rules"
  /\ ret.rule_file \notin DOMAIN rule_files
  /\ rule_files # <<>>
  /\ ~ret.value

\* C17: once every save_rules has returned, each rule file holds the whole
\* document of the save_rules that was the last to finish among those that
\* wrote it, and nothing else, so that load_rules reads the patterns and
\* the metadata of that document; this in every interleaving of the steps
\* of the writers.
C17_LastWriterWins ==
  (\A w \in DOMAIN writers : writers[w].pc = "done") =>
    \A w \in DOMAIN writers :
      LET same == {k \in 1..Len(finished) :
                     writers[finished[k]].rule_path = writers[w].rule_path}
          last == finished[CHOOSE k \in same : \A j \in same : j <= k]
      IN file_holds(rule_bytes[writers[w].rule_path], writers[last].rule_data)

FirstBalancedSpan(response) ==
  LET opening == {i \in 1..Len(response) : response[i] = "{"}
      i == Least(opening)
      depth(j) == Cardinality({k \in i..j : response[k] = "{"})
                    - Cardinality({k \in i..j : response[k] = "}"})
      closing == {j \in i..Len(response) : depth(j) = 0}
  IN IF opening = {} THEN [ok |-> FALSE]
     ELSE IF closing = {} THEN [ok |-> FALSE]
     ELSE [ok |-> TRUE, group |-> SubSeq(response, i, Least(closing))]

\* C20: extract_json_from_response returns the first JSON document found
\* by a parse of the whole response, then of the content of the json code
\* block, then of the first balanced span of braces, so that a JSON object
\* followed by prose with another brace is still returned; ValueError is
\* raised only when none of the three gives valid JSON.
C20_FirstJsonDocument ==
  ret.op = "extract_json_from_response" =>
    LET json_match == search_json_block(input)
        span == FirstBalancedSpan(input)
        expected ==
          IF json_loads_ok(input) THEN [value |-> input]
          ELSE IF json_match.ok /\ json_loads_ok(json_match.group)
          THEN [value |-> json_match.group]
          ELSE IF span.ok /\ json_loads_ok(span.group) THEN [value |-> span.group]
          ELSE [raised |-> "ValueError"]
    IN /\ DOMAIN ret = DOMAIN expected \cup {"op"}
       /\ "value" \in DOMAIN expected => ret.value = expected.value

(***************************************************************************)
(* Properties of the identification, continued                             *)
(***************************************************************************)
\* The keyword occurs in the text when letter case is ignored on both sides.
KeywordOccursIgnoringCase(keyword, f) ==
  re_search_keyword([lit |-> lower(keyword.lit), next |-> lower(keyword.next)],
                    LowerTokens(f))

\* C21: on a vendor match of a newly created session, device_type is the
\* first category, in the order Router, Switch, Firewall, Load Balancer,
\* one of whose keywords occurs in the text when case is ignored (WAN and
\* interface GigabitEthernet included); it is empty only when no keyword of
\* any category occurs.
C21_DeviceTypeOfFirstCategory ==
  (ret.op = "identify_device" /\ FingerprintHits(Tokens(raw_config)) # {}) =>
    LET f == Tokens(raw_config)
        types == {t \in 1..Len(type_keywords) :
                    \E k \in 1..Len(type_keywords[t].keywords) :
                       KeywordOccursIgnoringCase(type_keywords[t].keywords[k], f)}
    IN metadata.device_type =
         IF types = {} THEN Lit.empty ELSE type_keywords[Least(types)].device_type

(***************************************************************************)
(* Properties of the extraction, continued                                 *)
(***************************************************************************)
\* The characters of a block: its tokens with the whitespace between them.
RECURSIVE BlockChars(_, _)
BlockChars(b, i) ==
  IF i > Len(b) THEN <<>>
  ELSE IF i = Len(b) THEN b[i].tok
  ELSE b[i].tok \o Gap(b, i) \o BlockChars(b, i + 1)

\* C22: after extract_data on a newly created session, the status of every
\* interface record is "up" if its block contains "no shutdown" or
\* "enable", otherwise "down" if the block contains "shutdown", otherwise
\* empty; a block containing "no shutdown" is never reported "down".
C22_StatusOfBlock ==
  (ret.op = "extract_data" /\ metadata.vendor \in interface_patterns) =>
    LET matches == findall_interfaces(Tokens(raw_config), 1)
    IN /\ Len(interfaces) = Len(matches)
       /\ \A n \in 1..Len(matches) :
            LET block == BlockChars(matches[n][2], 1)
                no_shutdown == Lit.no \o <<" ">> \o Lit.shutdown
            IN /\ interfaces[n].status =
                    IF Contains(block, no_shutdown) \/ Contains(block, Lit.enable)
                    THEN Lit.up
                    ELSE IF Contains(block, Lit.shutdown) THEN Lit.down
                    ELSE Lit.empty
               /\ Contains(block, no_shutdown) => interfaces[n].status # Lit.down

\* Two records have been extracted from one text: the first from a block
\* that contains "shutdown" and is reported "up", the second from a block
\* with none of the three words.
C22_Witness ==
  /\ ret.op = "extract_data"
  /\ Len(interfaces) = 2
  /\ interfaces[1].status = Lit.up
  /\ Contains(BlockChars(findall_interfaces(Tokens(raw_config), 1)[1][2], 1), Lit.shutdown)
  /\ interfaces[2].status = Lit.empty

\* C29: in every interface record of a session, ip_address is empty
\* exactly when subnet_mask is empty, and the name is not empty.
C29_AddressWithMaskAndName ==
  \A n \in 1..Len(interfaces) :
     /\ (interfaces[n].ip_address # Lit.empty) <=> (interfaces[n].subnet_mask # Lit.empty)
     /\ interfaces[n].name # Lit.empty

\* extract_data has returned two records, the first with an address and a
\* mask, the second with neither.
C29_Witness ==
  /\ ret.op = "extract_data"
  /\ Len(ret.value.interfaces) = 2
  /\ interfaces[1].ip_address # Lit.empty
  /\ interfaces[1].subnet_mask # Lit.empty
  /\ interfaces[2].ip_address = Lit.empty

(***************************************************************************)
(* Properties of the validation, continued                                 *)
(***************************************************************************)
\* hostname is a letter followed by at most 62 letters, digits or hyphens.
LetterThenTail(hostname) ==
  /\ Len(hostname) \in 1..(HostnameTailMax + 1)
  /\ hostname[1] \in Letters
  /\ \A k \in 2..Len(hostname) : hostname[k] \in Letters \cup Digits \cup {"-"}

\* C23: for every input of validate_quality, total is the two required
\* fields of device_info plus the interfaces plus the interfaces that
\* declare an ip_address; filled is the required fields that are present
\* and of valid format (hostname: a letter followed by at most 62 letters,
\* digits or hyphens; management_ip: four integers of 0..255 separated by
\* dots) plus the interfaces with a name plus the interfaces whose declared
\* ip_address is valid; and there is one warning for each unit of total
\* that is not in filled.
C23_TotalFilledAndWarnings ==
  ret.op = "validate_quality" =>
    LET ifs == input.interfaces
        declared == {n \in 1..Len(ifs) : ifs[n].ip_address # Lit.empty}
        total == Len(required_fields.device_info) + Len(ifs) + Cardinality(declared)
        filled ==
          (IF /\ ~IsBlank(input.device_info.hostname)
              /\ LetterThenTail(input.device_info.hostname) THEN 1 ELSE 0)
          + (IF /\ ~IsBlank(input.device_info.management_ip)
                /\ FourOctetsInRange(input.device_info.management_ip) THEN 1 ELSE 0)
          + Cardinality({n \in 1..Len(ifs) : ifs[n].name # Lit.empty})
          + Cardinality({n \in declared : FourOctetsInRange(ifs[n].ip_address)})
    IN /\ ret.value.total_fields = total
       /\ ret.value.filled_fields = filled
       /\ Len(ret.value.warnings) = total - filled

(***************************************************************************)
(* Properties of the ruleset manager, continued                            *)
(***************************************************************************)
\* C24: optimize_rules on one failed sample replaces the hostname pattern,
\* when it does not match the sample and a hostname candidate does, by the
\* first candidate in list order that matches; every other field and a
\* hostname pattern that matches the sample keep their pattern, and the
\* fields of the rule set are the same after the call.
C24_FirstMatchingCandidate ==
  [][(pc = "optimize_first" /\ IsCallOf({"optimize_rules"}) /\ Len(input.first) = 1) =>
       LET f == Tokens(input.first[1])
           matching == {k \in 1..Len(adaptive_patterns) :
                          re_search_rule(adaptive_patterns[k], f)}
       IN /\ DOMAIN parsing_rules' = DOMAIN parsing_rules
          /\ ret'.value = parsing_rules'
          /\ \A field_name \in DOMAIN parsing_rules :
               parsing_rules'[field_name] =
                 IF /\ field_name = "hostname"
                    /\ ~re_search_rule(parsing_rules[field_name], f)
                    /\ matching # {}
                 THEN adaptive_patterns[Least(matching)]
                 ELSE parsing_rules[field_name]]_vars

\* The sample with a sysname line before a host-name line has been handed
\* to optimize_rules alone, and the hostname pattern is now the sysname
\* candidate while the interface pattern is the generated one.
C24_Witness ==
  /\ ret.op = "optimize_rules"
  /\ pc = "optimize"
  /\ input.first = <<hostname_samples[2]>>
  /\ DOMAIN parsing_rules # {}
  /\ parsing_rules.hostname = adaptive_patterns[2]
  /\ parsing_rules.interface = generate_parsing_rules_result(metadata).interface

(***************************************************************************)
(* Properties of the vendor fingerprints                                   *)
(***************************************************************************)
\* C26: identify_device never returns the vendor H3C or Ruijie: a text
\* that matches the fingerprint of H3C matches one of Cisco or of Huawei,
\* a text that matches the fingerprint of Ruijie matches the first
\* fingerprint of Cisco, and the vendor returned is empty, Cisco, Huawei or
\* Juniper.
C26_NeverH3CNorRuijie ==
  ret.op = "identify_device" =>
    LET hits == FingerprintHits(Tokens(raw_config))
        vendor_of(name) == CHOOSE v \in 1..Len(vendor_patterns) :
                             vendor_patterns[v].vendor = name
        matches(name) == \E h \in hits : h[1] = vendor_of(name)
    IN /\ matches(Lit.H3C) => (matches(Lit.Cisco) \/ matches(Lit.Huawei))
       /\ matches(Lit.Ruijie) => <<vendor_of(Lit.Cisco), 1>> \in hits
       /\ ret.value.vendor \in {Lit.empty, Lit.Cisco, Lit.Huawei, Lit.Juniper}
       /\ metadata.vendor \notin {Lit.H3C, Lit.Ruijie}

\* A text that matches the fingerprint of H3C and none of Cisco has been
\* identified as Huawei.
C26_Witness ==
  /\ ret.op = "identify_device"
  /\ <<3, 1>> \in FingerprintHits(Tokens(raw_config))
  /\ \A h \in FingerprintHits(Tokens(raw_config)) : h[1] # 1
  /\ vendor_patterns[3].vendor = Lit.H3C
  /\ ret.value.vendor = Lit.Huawei

(***************************************************************************)
(* Properties of the session                                               *)
(***************************************************************************)
\* C25: identify_device called after load_config_string(t) leaves the
\* metadata a newly created session would have for t, whatever was loaded
\* and identified in the session before.
C25_IdentifyDependsOnTextOnly ==
  [][(ret.op = "load_config_string" /\ IsCallOf({"identify_device"})) =>
       /\ metadata' = identify_device_result(DeviceMetadata, raw_config)
       /\ ret'.value = metadata']_vars

(***************************************************************************)
(* Properties of the score                                                 *)
(***************************************************************************)
\* C27: for every input of validate_quality total is at least 2, so the
\* score is filled / total and never the 0.0 of an empty total; an empty
\* list of warnings implies filled = total, a score of 1.0; and is_valid
\* is true exactly when the list of warnings is empty.
C27_NoWarningMeansFullScore ==
  ret.op = "validate_quality" =>
    LET v == ret.value
    IN /\ v.total_fields >= 2
       /\ v.quality_score = [num |-> v.filled_fields, den |-> v.total_fields]
       /\ v.warnings = <<>> =>
            (v.filled_fields = v.total_fields /\ v.quality_score.num = v.quality_score.den)
       /\ v.is_valid <=> (v.warnings = <<>>)

\* validate_quality has returned no warning for data with two interfaces
\* that each declare an address.
C27_Witness ==
  /\ ret.op = "validate_quality"
  /\ ret.value.warnings = <<>>
  /\ ret.value.is_valid
  /\ Len(input.interfaces) = 2
  /\ ret.value.total_fields = 6

(***************************************************************************)
(* Properties of the rule library                                          *)
(***************************************************************************)
\* Two rule sets have the same fields and the same pattern for each.
SameRules(a, b) == DOMAIN a = DOMAIN b /\ \A k \in DOMAIN a : a[k] = b[k]

\* C28: whenever load_rules returns False, for a document that is missing,
\* unreadable or of malformed metadata or patterns, the rule set and the
\* metadata of the session are what they were before the call.
C28_FailedLoadChangesNothing ==
  [][(IsCallOf({"load_rules"}) /\ ~ret'.value) =>
       /\ SameRules(parsing_rules', parsing_rules)
       /\ metadata' = metadata]_vars

(***************************************************************************)
(* Properties of the persistence store                                     *)
(***************************************************************************)
\* C30: after a save_parsing_rule for a vendor and device type,
\* load_parsing_rules of them returns the rules just saved and no other,
\* each with the pattern saved for it, in the order of priority and then
\* of rule name; and load_parsing_rules of any other vendor and device
\* type returns what it returned before the save, the patterns of the
\* rules that have the same names included.
C30_LoadReturnsLastSaved ==
  [][IsCallOf({"save_parsing_rule"}) =>
       LET saved == ret'.rule_data
           keys == {<<d.metadata.vendor, d.metadata.device_type>> : d \in StoreRuleData}
           own == <<saved.metadata.vendor, saved.metadata.device_type>>
           rows == load_parsing_rules_result(store', own[1], own[2])
           alphabetical == <<"description", "hostname", "interface", "ip_address", "vlan">>
       IN /\ {rows[i].rule_name : i \in 1..Len(rows)} = DOMAIN saved.patterns
          /\ Len(rows) = Cardinality(DOMAIN saved.patterns)
          /\ \A i \in 1..Len(rows) : rows[i].pattern = saved.patterns[rows[i].rule_name]
          /\ \A i \in 1..(Len(rows) - 1) :
               \/ rows[i].priority < rows[i + 1].priority
               \/ /\ rows[i].priority = rows[i + 1].priority
                  /\ \E a, b \in 1..Len(alphabetical) :
                       /\ a < b
                       /\ alphabetical[a] = rows[i].rule_name
                       /\ alphabetical[b] = rows[i + 1].rule_name
          /\ \A key \in keys \ {own} :
               load_parsing_rules_result(store', key[1], key[2])
                 = load_parsing_rules_result(store, key[1], key[2])]_vars

====
